---- MODULE Spec2Model ----
(***************************************************************************)
(* The hook subsystem of nano-agent (modules/hook_manager.py): the         *)
(* HookExecutor that runs one hook command as a child process, the         *)
(* HookManager that loads and merges the layered hooks.json sources and    *)
(* triggers the hooks of a lifecycle event, and reload_configuration.      *)
(*                                                                         *)
(* trigger_hook is a coroutine on a single asyncio event loop: everything  *)
(* between two awaits is one atomic step.  The awaits are the process      *)
(* spawn and communicate of execute_hook and the gather of the parallel    *)
(* batch.                                                                  *)
(*                                                                         *)
(* The lifecycle driver (modules/nano_agent.py, cli.py, mcp_tools.py):     *)
(* prompt_nano_agent and _execute_nano_agent with the hooks they trigger   *)
(* around the agent run, the ToolPermissions they build, and their calls   *)
(* on the session store (get_or_create, get_context, append_exchange,      *)
(* expire_older_than), and the session handling of the CLI's run command.  *)
(* Execution times are whole ticks.                                        *)
(***************************************************************************)
EXTENDS Integers, Sequences, FiniteSets, TLC

\* ------------------------------------------------------------------ bounds

\* Longest hook list configured for the events of one configuration.
MaxHooks == 2

\* Most keys one hooks.json source defines.
MaxKeys == 2

\* Most sessions the store holds.
MaxSessions == 3

\* Longest conversation a stored session starts with.
MaxHistory == 22

\* The time of the run, and with it the oldest age of a stored session.
MaxAge == 3

\* Longest time one execute_hook call takes, in ticks of the clock.
MaxTime == 2

\* ----------------------------------------------------------- value domains

\* The coroutines that may call trigger_hook concurrently.
Calls == {1, 2}

\* Two of the HookEvent tags (the manager treats all tags alike).
Events == {"pre_agent_start", "post_agent_complete"}

\* HookConfig.matcher: no matcher, or a tool name the event must carry.
NoMatcher == "none"

ToolNames == {"read_file", "write_file"}

Matchers == {NoMatcher, "write_file"}

\* How a spawned hook process ends: exit code 0, a nonzero exit code, no
\* completion within hook_config.timeout, or an exception while communicating.
Outcomes == {"exit0", "exit1", "timeout", "error"}

\* A hook definition: name (its position in the configured list), enabled,
\* blocking, matcher.
HookConfigs(n) ==
  [name : {n}, enabled : BOOLEAN, blocking : BOOLEAN, matcher : Matchers]

RECURSIVE HookLists(_)
\* The hook lists of length n, the i-th hook named i.
HookLists(n) ==
  IF n = 0 THEN {<<>>}
  ELSE {Append(l, h) : l \in HookLists(n - 1), h \in HookConfigs(n)}

\* HookManager.context as _detect_context sets it, and HookEventData.context.
Contexts == {"cli", "mcp"}

\* A context or timestamp the caller left unset.
Absent == ""

\* The timestamp a caller put into the event data when it built it.
CallerTime == "t0"

\* datetime.now().isoformat() inside trigger_hook, later than CallerTime.
Now == "now"

\* The event data handed to trigger_hook: the tool name a matcher looks at,
\* whether json.dumps(event_data.to_dict()) succeeds, and the context and
\* timestamp the caller set, here the manager's own context as
\* _execute_nano_agent_async passes it.
EventData ==
  [tool_name : ToolNames, serializable : BOOLEAN, context : {"cli"},
   timestamp : {CallerTime}]

\* Event data with any context and timestamp, set or not.
AnyEventData ==
  [tool_name : ToolNames, serializable : BOOLEAN,
   context : Contexts \cup {Absent}, timestamp : {Absent, CallerTime}]

\* ------------------------------------------------------------- hook_types

\* HookConfig.matches(data)
Matches(hook, data) ==
  hook.matcher = NoMatcher \/ hook.matcher = data.tool_name

\* HookResult.blocking_reason when nothing set it: whether a reason is
\* given, and the hook it names.
NoReason == [given |-> FALSE, hook |-> 0]

\* HookResult(event=..., hooks_executed=..., results=..., blocked=...):
\* blocking_reason is not passed and keeps its default.
HookResult(event, results, blocked, total_time) ==
  [event |-> event, hooks_executed |-> Len(results), results |-> results,
   blocked |-> blocked, blocking_reason |-> NoReason,
   total_time |-> total_time]

\* HookResult(event=event, hooks_executed=0, results=[]): blocked defaults
\* to False, total_time to 0.
EmptyHookResult(event) == HookResult(event, <<>>, FALSE, 0)

\* ----------------------------------------------------------- HookExecutor

\* The values of time.time() - start_time.
Durations == 0..MaxTime

\* The time every execute_hook call takes where the times do not matter.
Tick == 1

\* A skip that reports a disabled blocking hook as blocked.
DisabledResultBlocks(hook) ==
  [hook_name |-> hook.name, success |-> TRUE, exit_code |-> 0,
   error |-> "", blocked |-> hook.blocking, execution_time |-> 0]

\* The result execute_hook returns for a disabled hook.
DisabledResult(hook) ==
  [hook_name |-> hook.name, success |-> TRUE, exit_code |-> 0,
   error |-> "", blocked |-> FALSE, execution_time |-> 0]

\* "execution_time=time.time() - start_time" of the results of an enabled
\* hook.
Timed(result, elapsed) ==
  [hook_name |-> result.hook_name, success |-> result.success,
   exit_code |-> result.exit_code, error |-> result.error,
   blocked |-> result.blocked, execution_time |-> elapsed]

\* The variables execute_hook adds to the environment of the hook process
\* that depend on the context of the event data.
Env(event_data) ==
  [NANO_CLI_CONTEXT |-> event_data.context,
   NANO_MCP_CONTEXT |-> event_data.context = "mcp"]

\* A timeout handler that reports the hook as not blocked.
TimeoutResultNeverBlocks(hook) ==
  [hook_name |-> hook.name, success |-> FALSE, exit_code |-> -1,
   error |-> "timed out", blocked |-> FALSE]

\* The result execute_hook returns after asyncio.TimeoutError.
TimeoutResult(hook) ==
  [hook_name |-> hook.name, success |-> FALSE, exit_code |-> -1,
   error |-> "timed out", blocked |-> hook.blocking]

\* A completion that takes every nonzero exit for a block.
ExitResultIgnoresBlocking(hook, returncode) ==
  [hook_name |-> hook.name, success |-> (returncode = 0),
   exit_code |-> returncode, error |-> "", blocked |-> (returncode # 0)]

\* The result execute_hook returns when the process completed with returncode.
ExitResult(hook, returncode) ==
  [hook_name |-> hook.name, success |-> (returncode = 0),
   exit_code |-> returncode, error |-> "",
   blocked |-> (returncode # 0 /\ hook.blocking)]

\* The result execute_hook returns from its except Exception handler.
ExceptionResult(hook) ==
  [hook_name |-> hook.name, success |-> FALSE, exit_code |-> -1,
   error |-> "exception", blocked |-> hook.blocking]

\* The result of a hook whose process was spawned and ended with outcome.
OutcomeResult(hook, outcome) ==
  CASE outcome = "exit0" -> ExitResult(hook, 0)
    [] outcome = "exit1" -> ExitResult(hook, 1)
    [] outcome = "timeout" -> TimeoutResult(hook)
    [] OTHER -> ExceptionResult(hook)

\* ------------------------------------------------------- tool permissions

\* The tools get_nano_agent_tools hands to the agent that the permission
\* check tells apart: one that reads and the two that write.
AgentTools == {"read_file", "write_file", "edit_file"}

\* The tools read_only disables.
MutatingTools == {"write_file", "edit_file"}

\* Paths and path patterns are sequences of path segments.
Paths == {<<"etc", "passwd">>, <<"src", "main">>}

Patterns == {<<"etc">>, <<"src">>}

\* A path matches a pattern that is a prefix of it.
PathMatches(path, pattern) ==
  /\ Len(pattern) <= Len(path)
  /\ SubSeq(path, 1, Len(pattern)) = pattern

\* An optional list argument: None, or a list with its items.
NoList == [given |-> FALSE, items |-> {}]

OptionalLists(S) ==
  {NoList} \cup {[given |-> TRUE, items |-> x] : x \in SUBSET S}

\* Permissions built without the request's read_only.
ToolPermissionsWritable(request) ==
  [allowed_tools |-> request.allowed_tools.items,
   blocked_tools |-> request.blocked_tools.items,
   allowed_paths |-> request.allowed_paths.items,
   blocked_paths |-> request.blocked_paths.items,
   read_only |-> FALSE]

\* ToolPermissions(allowed_tools=..., blocked_tools=..., allowed_paths=...,
\* blocked_paths=..., read_only=...) built from the request's fields.
ToolPermissions(request) ==
  [allowed_tools |-> request.allowed_tools.items,
   blocked_tools |-> request.blocked_tools.items,
   allowed_paths |-> request.allowed_paths.items,
   blocked_paths |-> request.blocked_paths.items,
   read_only |-> request.read_only]

NoPermissions ==
  [allowed_tools |-> {}, blocked_tools |-> {}, allowed_paths |-> {},
   blocked_paths |-> {}, read_only |-> FALSE]

\* A check that consults the allow list before the deny list.
CheckPermissionAllowFirst(p, tool, path) ==
  IF p.allowed_tools # {} /\ tool \in p.allowed_tools THEN TRUE
  ELSE IF tool \in p.blocked_tools THEN FALSE
  ELSE IF p.allowed_tools # {} THEN FALSE
  ELSE IF p.read_only /\ tool \in MutatingTools THEN FALSE
  ELSE IF \E pat \in p.blocked_paths : PathMatches(path, pat) THEN FALSE
  ELSE IF p.allowed_paths # {}
          /\ ~\E pat \in p.allowed_paths : PathMatches(path, pat) THEN FALSE
  ELSE TRUE

\* The permission decision for one tool call: TRUE allows, FALSE denies.
CheckPermission(p, tool, path) ==
  IF tool \in p.blocked_tools THEN FALSE
  ELSE IF p.allowed_tools # {} /\ tool \notin p.allowed_tools THEN FALSE
  ELSE IF p.read_only /\ tool \in MutatingTools THEN FALSE
  ELSE IF \E pat \in p.blocked_paths : PathMatches(path, pat) THEN FALSE
  ELSE IF p.allowed_paths # {}
          /\ ~\E pat \in p.allowed_paths : PathMatches(path, pat) THEN FALSE
  ELSE TRUE

\* ------------------------------------------------------------ session store

\* Session ids are 1..MaxSessions; NoId is session_id = None.
NoId == 0

SessionIds == 1..MaxSessions

\* DEFAULT_MODEL and one other model.
DefaultModel == "gpt-5-mini"

Models == {DefaultModel, "gpt-5"}

\* A session's model when none is stored.
NoModel == ""

\* The i-th message of a stored history: user and assistant alternate, the
\* content is the position.
HistoryMessage(i) ==
  [role |-> IF i % 2 = 1 THEN "user" ELSE "assistant", content |-> i]

History(n) == [i \in 1..n |-> HistoryMessage(i)]

\* The user message and the assistant message of request r's exchange.
UserMessage(r) == [role |-> "user", content |-> 0 - r]

AssistantMessage(r) == [role |-> "assistant", content |-> 0 - r]

NoSession ==
  [exists |-> FALSE, conversation |-> <<>>, model |-> NoModel,
   read_only |-> FALSE, updated |-> 0]

\* A session as create leaves it at time t.
NewSession(t) ==
  [exists |-> TRUE, conversation |-> <<>>, model |-> NoModel,
   read_only |-> FALSE, updated |-> t]

Existing(st) == {i \in SessionIds : st[i].exists}

\* The id create gives a new session: the lowest one not in use.
FreshId(st) ==
  CHOOSE i \in SessionIds \ Existing(st) :
    \A j \in SessionIds \ Existing(st) : i <= j

\* The most recently updated session.
MostRecent(st) ==
  CHOOSE i \in Existing(st) :
    \A j \in Existing(st) :
      \/ st[j].updated < st[i].updated
      \/ st[j].updated = st[i].updated /\ i <= j

\* get_or_create(client_id, session_id, create_new) at time t: the session
\* the id names when it exists; without an id the most recently updated
\* session, or a new one if none exists or create_new is set.  With both an
\* id and create_new, createWins tells whether a new session is created.
Loads(st, session_id, create_new, createWins) ==
  session_id # NoId /\ st[session_id].exists /\ ~(create_new /\ createWins)

Resolves(st, session_id, create_new) ==
  session_id = NoId /\ ~create_new /\ Existing(st) # {}

Creates(st, session_id, create_new, createWins) ==
  /\ ~Loads(st, session_id, create_new, createWins)
  /\ ~Resolves(st, session_id, create_new)

GetOrCreate(st, session_id, create_new, createWins, t) ==
  IF Loads(st, session_id, create_new, createWins)
  THEN [store |-> st, id |-> session_id]
  ELSE IF Resolves(st, session_id, create_new)
  THEN [store |-> st, id |-> MostRecent(st)]
  ELSE [store |-> [st EXCEPT ![FreshId(st)] = NewSession(t)],
        id |-> FreshId(st)]

Min(a, b) == IF a <= b THEN a ELSE b

\* get_context(session, max_messages): the last max_messages messages,
\* oldest first.
GetContext(conversation, max_messages) ==
  SubSeq(conversation,
         Len(conversation) - Min(max_messages, Len(conversation)) + 1,
         Len(conversation))

\* An append onto the copy of the conversation the caller loaded earlier.
AppendBaseLoaded(stored, loaded) == loaded

\* The conversation append_exchange appends to: the stored one, read under
\* the session's lock.
AppendBase(stored, loaded) == stored

\* append_exchange(session, user, assistant) at time t.
AppendExchange(session, base, user, assistant, t) ==
  [session EXCEPT !.conversation = base \o <<user, assistant>>,
                  !.updated = t]

\* An expiry that also deletes the sessions last updated at the cutoff.
ExpiredAtCutoff(st, days, t) ==
  {i \in Existing(st) : st[i].updated <= t - days}

\* The sessions expire_older_than(days) deletes at time t: those last
\* updated before the cutoff t - days.
Expired(st, days, t) == {i \in Existing(st) : st[i].updated < t - days}

\* ---------------------------------------------------------------- state

VARIABLES
  config,      \* HookManager.config, the active HooksConfiguration
  context,     \* HookManager.context
  callers,     \* the coroutines that call trigger_hook in this run
  pc,          \* per call: idle, gather, loop, await, done, raised
  req,         \* per call: the arguments event, data (the object as trigger_hook
               \* leaves it), blocking, and given, the data as it was handed over
  applicable,  \* per call: applicable_hooks
  parallel,    \* per call: the branch taken at "if parallel_execution and not blocking"
  tasks,       \* per call: index of a gathered hook -> pending, running, done
  taskResult,  \* per call: index of a gathered hook -> its result
  loopIdx,     \* per call: position of the for loop in applicable_hooks
  results,     \* per call: the local list results
  totalTime,   \* per call: the local total_time
  ret,         \* per call: the HookResult returned
  invoked,     \* per call: the hooks execute_hook was called for, in order
  started,     \* per call: the hooks a process was spawned for, in order
  killed,      \* per call: the hooks whose process was killed
  lastLoaded,  \* the value the latest _load_configuration returned
  seen,        \* per call: the configuration read, and lastLoaded then
  ldPc,        \* _load_configuration: start, done (returned), failed (raised)
  configs,     \* _load_configuration: the local list configs
  sources,     \* the global, project and explicit hooks.json as _load_configuration finds them
  merged,      \* _load_configuration: the dictionary _merge_configs returned
  loaded,      \* _load_configuration: the HooksConfiguration returned
  entry,       \* per request: the entry point that started it
  dpc,         \* per request: the position of the driver
  args,        \* per request: the arguments of the entry point
  local,       \* per request: the locals of prompt_nano_agent
  response,    \* per request: the response returned to the caller
  trace,       \* per request: the events whose trigger_hook call ended (with the
               \* blocked flag it returned) and the runner invocation, in order
  toolCall,    \* per request: a tool call of the agent and its decision
  store,       \* the session store: session id -> session
  writer,      \* session id -> the request holding the session's lock, or 0
  expireLog,   \* what the expiry of old sessions did
  contextCall  \* a get_context call of any caller: its arguments and result

callVars ==
  <<pc, req, applicable, parallel, tasks, taskResult, loopIdx, results,
    totalTime, ret, invoked, started, killed, seen>>

loadVars == <<sources, ldPc, configs, merged, loaded>>

driverVars == <<entry, dpc, args, local, response, trace, toolCall>>

sessionVars == <<store, writer, expireLog, contextCall>>

\* The state outside the trigger_hook calls and the configuration.
agentVars == <<context, driverVars, sessionVars>>

vars == <<config, callers, lastLoaded, callVars, loadVars, agentVars>>

NoData == [tool_name |-> "", serializable |-> TRUE, context |-> Absent,
           timestamp |-> Absent]

NoReq == [event |-> "", data |-> NoData, blocking |-> FALSE, given |-> NoData]

NoRet == [event |-> "", hooks_executed |-> 0, results |-> <<>>,
          blocked |-> FALSE, blocking_reason |-> NoReason, total_time |-> 0]

\* ------------------------------------------------------ trigger_hook

\* self.config.hooks.get(event.value, [])
EventHooks(cfg, event) ==
  IF event \in DOMAIN cfg.hooks THEN cfg.hooks[event] ELSE <<>>

\* [hook for hook in event_hooks if hook.matches(data)]
ApplicableHooks(cfg, event, data) ==
  SelectSeq(EventHooks(cfg, event), LAMBDA h : Matches(h, data))

\* A branch condition that forgets the caller's blocking argument.
ParallelBranchIgnoresCaller(cfg, blocking) == cfg.parallel_execution

\* "if self.config.parallel_execution and not blocking"
ParallelBranch(cfg, blocking) == cfg.parallel_execution /\ ~blocking

\* A tasks list built without its filter.
GatheredHooksAll(hooks) == 1..Len(hooks)

\* The hooks the tasks list is built from: "if not hook.blocking".
GatheredHooks(hooks) == {i \in 1..Len(hooks) : ~hooks[i].blocking}

\* The for loop's next hook at or after position i: every hook in the
\* sequential branch, the blocking hooks in the parallel branch; 0 when the
\* loop is exhausted.
NextInLoop(hooks, par, i) ==
  LET rest == {j \in i..Len(hooks) : ~par \/ hooks[j].blocking}
  IN IF rest = {} THEN 0 ELSE CHOOSE j \in rest : \A k \in rest : j <= k

\* A trigger_hook without its enabled check.
HooksDisabledNever(cfg) == FALSE

\* "if not self.config.enabled: return HookResult(...)"
HooksDisabled(cfg) == ~cfg.enabled

\* A loop without its break.
StopsLoopNever(result) == FALSE

\* "if result.blocked: blocked = True; break"
StopsLoop(result) == result.blocked

\* What trigger_hook reads of a configuration before its first await: the
\* enabled flag, the event's hook list and the parallel_execution flag.
ConfigRead(cfg, event) ==
  [enabled |-> cfg.enabled, hooks |-> EventHooks(cfg, event),
   parallel_execution |-> cfg.parallel_execution]

\* "data.context = self.context; data.timestamp = datetime.now().isoformat()"
Stamp(data, ctx) == [data EXCEPT !.context = ctx, !.timestamp = Now]

\* The first lines of trigger_hook, up to its first await.
TriggerBegin(c, event, data, blocking) ==
  /\ c \in callers
  /\ pc[c] = "idle"
  /\ req' = [req EXCEPT
              ![c] = [event |-> event,
                      data |-> IF HooksDisabled(config) THEN data
                               ELSE Stamp(data, context),
                      blocking |-> blocking, given |-> data]]
  /\ LET hooks == ApplicableHooks(config, event, data)
         par == ParallelBranch(config, blocking)
         gathered == GatheredHooks(hooks)
     IN IF HooksDisabled(config) \/ hooks = <<>>
        THEN /\ pc' = [pc EXCEPT ![c] = "done"]
             /\ ret' = [ret EXCEPT ![c] = EmptyHookResult(event)]
             /\ UNCHANGED <<applicable, parallel, tasks, taskResult, loopIdx>>
        ELSE /\ applicable' = [applicable EXCEPT ![c] = hooks]
             /\ parallel' = [parallel EXCEPT ![c] = par]
             /\ IF par /\ gathered # {}
                THEN /\ pc' = [pc EXCEPT ![c] = "gather"]
                     /\ tasks' = [tasks EXCEPT
                                    ![c] = [i \in gathered |-> "pending"]]
                     /\ taskResult' = [taskResult EXCEPT ![c] = <<>>]
                     /\ UNCHANGED loopIdx
                ELSE /\ pc' = [pc EXCEPT ![c] = "loop"]
                     /\ loopIdx' = [loopIdx EXCEPT ![c] = 1]
                     /\ UNCHANGED <<tasks, taskResult>>
             /\ UNCHANGED ret
  /\ seen' = [seen EXCEPT ![c] = [read |-> ConfigRead(config, event),
                                  loaded |-> ConfigRead(lastLoaded, event)]]
  /\ UNCHANGED <<agentVars, config, callers, lastLoaded, loadVars, results,
                 totalTime, invoked, started, killed>>

\* The for loop after result was appended for the hook at position i: break
\* and return when it blocked, return when no hook is left, else go on.
AfterResult(c, i, result) ==
  LET rs == Append(results[c], result)
      total == totalTime[c] + result.execution_time
      next == NextInLoop(applicable[c], parallel[c], i + 1)
  IN /\ results' = [results EXCEPT ![c] = rs]
     /\ totalTime' = [totalTime EXCEPT ![c] = total]
     /\ IF StopsLoop(result)
        THEN /\ pc' = [pc EXCEPT ![c] = "done"]
             /\ ret' = [ret EXCEPT
                          ![c] = HookResult(req[c].event, rs, TRUE, total)]
             /\ UNCHANGED loopIdx
        ELSE IF next = 0
        THEN /\ pc' = [pc EXCEPT ![c] = "done"]
             /\ ret' = [ret EXCEPT
                          ![c] = HookResult(req[c].event, rs, FALSE, total)]
             /\ UNCHANGED loopIdx
        ELSE /\ pc' = [pc EXCEPT ![c] = "loop"]
             /\ loopIdx' = [loopIdx EXCEPT ![c] = i + 1]
             /\ UNCHANGED ret

\* One iteration of the for loop up to execute_hook's await of the spawn:
\* a disabled hook returns at once, json.dumps may raise, the spawn may fail
\* (after the time elapsed).
LoopStart(c, spawned, elapsed) ==
  /\ pc[c] = "loop"
  /\ LET i == NextInLoop(applicable[c], parallel[c], loopIdx[c])
         hook == applicable[c][i]
     IN /\ i # 0
        /\ invoked' = [invoked EXCEPT ![c] = Append(@, i)]
        /\ IF ~hook.enabled
           THEN /\ AfterResult(c, i, DisabledResult(hook))
                /\ UNCHANGED started
           ELSE IF ~req[c].data.serializable
           THEN /\ pc' = [pc EXCEPT ![c] = "raised"]
                /\ UNCHANGED <<results, totalTime, ret, loopIdx, started>>
           ELSE IF ~spawned
           THEN /\ AfterResult(c, i, Timed(ExceptionResult(hook), elapsed))
                /\ UNCHANGED started
           ELSE /\ pc' = [pc EXCEPT ![c] = "await"]
                /\ loopIdx' = [loopIdx EXCEPT ![c] = i]
                /\ started' = [started EXCEPT ![c] = Append(@, i)]
                /\ UNCHANGED <<results, totalTime, ret>>
  /\ UNCHANGED <<agentVars, config, callers, lastLoaded, loadVars, seen, req, applicable, parallel, tasks,
                 taskResult, killed>>

\* The awaited process of the loop's hook ends: communicate returns, times
\* out (the process is killed) or raises, after the time elapsed.
LoopComplete(c, outcome, elapsed) ==
  /\ pc[c] = "await"
  /\ LET i == loopIdx[c]
         hook == applicable[c][i]
     IN /\ AfterResult(c, i, Timed(OutcomeResult(hook, outcome), elapsed))
        /\ killed' = [killed EXCEPT
                        ![c] = IF outcome = "timeout" THEN @ \cup {i} ELSE @]
  /\ UNCHANGED <<agentVars, config, callers, lastLoaded, loadVars, seen, req, applicable, parallel, tasks,
                 taskResult, invoked, started>>

\* One gathered execute_hook runs up to its await of the spawn.
TaskStart(c, i, spawned, elapsed) ==
  /\ pc[c] = "gather"
  /\ i \in DOMAIN tasks[c]
  /\ tasks[c][i] = "pending"
  /\ invoked' = [invoked EXCEPT ![c] = Append(@, i)]
  /\ LET hook == applicable[c][i]
     IN IF ~hook.enabled
        THEN /\ tasks' = [tasks EXCEPT ![c][i] = "done"]
             /\ taskResult' = [taskResult EXCEPT
                                 ![c] = (i :> DisabledResult(hook)) @@ @]
             /\ UNCHANGED <<pc, started>>
        ELSE IF ~req[c].data.serializable
        THEN /\ pc' = [pc EXCEPT ![c] = "raised"]
             /\ UNCHANGED <<tasks, taskResult, started>>
        ELSE IF ~spawned
        THEN /\ tasks' = [tasks EXCEPT ![c][i] = "done"]
             /\ taskResult' = [taskResult EXCEPT
                                 ![c] = (i :> Timed(ExceptionResult(hook),
                                                    elapsed)) @@ @]
             /\ UNCHANGED <<pc, started>>
        ELSE /\ tasks' = [tasks EXCEPT ![c][i] = "running"]
             /\ started' = [started EXCEPT ![c] = Append(@, i)]
             /\ UNCHANGED <<pc, taskResult>>
  /\ UNCHANGED <<agentVars, config, callers, lastLoaded, loadVars, seen, req, applicable, parallel, loopIdx,
                 results, totalTime, ret, killed>>

\* The process of one gathered hook ends.
TaskComplete(c, i, outcome, elapsed) ==
  /\ pc[c] = "gather"
  /\ i \in DOMAIN tasks[c]
  /\ tasks[c][i] = "running"
  /\ tasks' = [tasks EXCEPT ![c][i] = "done"]
  /\ taskResult' = [taskResult EXCEPT
       ![c] = (i :> Timed(OutcomeResult(applicable[c][i], outcome),
                          elapsed)) @@ @]
  /\ killed' = [killed EXCEPT
                  ![c] = IF outcome = "timeout" THEN @ \cup {i} ELSE @]
  /\ UNCHANGED <<agentVars, config, callers, lastLoaded, loadVars, seen, pc, req, applicable, parallel, loopIdx,
                 results, totalTime, ret, invoked, started>>

RECURSIVE InTaskOrder(_, _)
\* The results of the gathered hooks in the order of the tasks list.
InTaskOrder(f, idxs) ==
  IF idxs = {} THEN <<>>
  ELSE LET i == CHOOSE j \in idxs : \A k \in idxs : j <= k
       IN <<f[i]>> \o InTaskOrder(f, idxs \ {i})

RECURSIVE SumOfTimes(_)
\* A batch time that adds up the times of the gathered hooks.
SumOfTimes(parallel_results) ==
  IF parallel_results = <<>> THEN 0
  ELSE parallel_results[1].execution_time + SumOfTimes(Tail(parallel_results))

\* "max(r.execution_time for r in parallel_results)"
MaxOfTimes(parallel_results) ==
  LET times == {parallel_results[i].execution_time :
                  i \in 1..Len(parallel_results)}
  IN CHOOSE t \in times : \A u \in times : u <= t

\* asyncio.gather returns: results.extend(parallel_results), total_time is
\* the longest of them, then the for loop over the blocking hooks begins (or,
\* with none, trigger_hook returns).
GatherJoin(c) ==
  /\ pc[c] = "gather"
  /\ \A i \in DOMAIN tasks[c] : tasks[c][i] = "done"
  /\ LET parallel_results == InTaskOrder(taskResult[c], DOMAIN tasks[c])
         rs == results[c] \o parallel_results
         total == MaxOfTimes(parallel_results)
     IN /\ results' = [results EXCEPT ![c] = rs]
        /\ totalTime' = [totalTime EXCEPT ![c] = total]
        /\ IF NextInLoop(applicable[c], TRUE, 1) = 0
           THEN /\ pc' = [pc EXCEPT ![c] = "done"]
                /\ ret' = [ret EXCEPT
                             ![c] = HookResult(req[c].event, rs, FALSE, total)]
                /\ UNCHANGED loopIdx
           ELSE /\ pc' = [pc EXCEPT ![c] = "loop"]
                /\ loopIdx' = [loopIdx EXCEPT ![c] = 1]
                /\ UNCHANGED ret
  /\ UNCHANGED <<agentVars, config, callers, lastLoaded, loadVars, seen, req, applicable, parallel, tasks,
                 taskResult, invoked, started, killed>>

\* ------------------------------------------------- _load_configuration

\* The keys _merge_configs overrides one by one.
ScalarKeys == {"version", "enabled", "timeout_seconds", "parallel_execution"}

\* The keys the hooks.json sources of the model define.
SourceKeys == {"enabled", "timeout_seconds", "parallel_execution", "hooks"}

ListA ==
  <<[name |-> 1, enabled |-> TRUE, blocking |-> FALSE, matcher |-> NoMatcher]>>

ListB ==
  <<[name |-> 1, enabled |-> TRUE, blocking |-> TRUE, matcher |-> NoMatcher],
    [name |-> 2, enabled |-> TRUE, blocking |-> FALSE, matcher |-> NoMatcher]>>

\* The values a source may give to a key.
KeyValues(k) ==
  CASE k = "enabled" -> BOOLEAN
    [] k = "parallel_execution" -> BOOLEAN
    [] k = "timeout_seconds" -> {30, 60}
    [] k = "hooks" ->
         {("pre_agent_start" :> ListA), ("pre_agent_start" :> ListB),
          ("post_agent_complete" :> ListA),
          ("pre_agent_start" :> ListB) @@ ("post_agent_complete" :> ListB)}

EmptyDict == <<>>

RECURSIVE DictsOver(_)
\* The dictionaries that define exactly the keys K.
DictsOver(K) ==
  IF K = {} THEN {EmptyDict}
  ELSE LET k == CHOOSE x \in K : TRUE
       IN {(k :> v) @@ d : v \in KeyValues(k), d \in DictsOver(K \ {k})}

\* A source file: absent, unreadable, not JSON, or a JSON document (null or
\* an object).
Sources ==
  {[kind |-> k, dict |-> EmptyDict] :
     k \in {"missing", "unreadable", "invalid", "null"}}
  \cup {[kind |-> "object", dict |-> d] :
          d \in UNION {DictsOver(K) :
                         K \in {S \in SUBSET SourceKeys :
                                  Cardinality(S) <= MaxKeys}}}

\* The three guarded blocks of _load_configuration: a source is appended to
\* configs when it exists and open and json.load succeed.
ReadSources(srcs) ==
  SelectSeq(srcs, LAMBDA s : s.kind \in {"null", "object"})

\* A round that appends the later source's hook list to the earlier one.
MergeOneAppends(m, d) ==
  LET keys == DOMAIN m \cup (DOMAIN d \cap ScalarKeys)
      scalars == [k \in keys |->
                    IF k \in DOMAIN d \cap ScalarKeys THEN d[k] ELSE m[k]]
      old == IF "hooks" \in DOMAIN m THEN m["hooks"] ELSE EmptyDict
  IN IF "hooks" \in DOMAIN d
     THEN ("hooks" :> [e \in DOMAIN old \cup DOMAIN d["hooks"] |->
                         IF e \in DOMAIN d["hooks"]
                         THEN (IF e \in DOMAIN old THEN old[e] ELSE <<>>)
                              \o d["hooks"][e]
                         ELSE old[e]]) @@ scalars
     ELSE scalars

\* One round of the loop "for config in configs[1:]".
MergeOne(m, d) ==
  LET keys == DOMAIN m \cup (DOMAIN d \cap ScalarKeys)
      scalars == [k \in keys |->
                    IF k \in DOMAIN d \cap ScalarKeys THEN d[k] ELSE m[k]]
      old == IF "hooks" \in DOMAIN m THEN m["hooks"] ELSE EmptyDict
  IN IF "hooks" \in DOMAIN d
     THEN ("hooks" :> [e \in DOMAIN old \cup DOMAIN d["hooks"] |->
                         IF e \in DOMAIN d["hooks"] THEN d["hooks"][e]
                         ELSE old[e]]) @@ scalars
     ELSE scalars

RECURSIVE MergeFrom(_, _, _)
\* The loop of _merge_configs from configs[i] on; a configuration that is no
\* dictionary raises (TypeError at "key in config").
MergeFrom(m, cfgs, i) ==
  IF i > Len(cfgs) THEN [ok |-> TRUE, dict |-> m]
  ELSE IF cfgs[i].kind # "object" THEN [ok |-> FALSE, dict |-> EmptyDict]
  ELSE MergeFrom(MergeOne(m, cfgs[i].dict), cfgs, i + 1)

\* _merge_configs(configs): ok is FALSE when it raises (configs[0].copy() of
\* a value that is no dictionary raises AttributeError).
MergeConfigs(cfgs) ==
  IF cfgs = <<>> THEN [ok |-> TRUE, dict |-> EmptyDict]
  ELSE IF cfgs[1].kind # "object" THEN [ok |-> FALSE, dict |-> EmptyDict]
  ELSE MergeFrom(cfgs[1].dict, cfgs, 2)

\* The dataclass defaults of HooksConfiguration.
DefaultTimeout == 30

\* HooksConfiguration.from_dict(data)
FromDict(d) ==
  [enabled |-> IF "enabled" \in DOMAIN d THEN d["enabled"] ELSE TRUE,
   parallel_execution |->
     IF "parallel_execution" \in DOMAIN d THEN d["parallel_execution"]
     ELSE TRUE,
   timeout_seconds |->
     IF "timeout_seconds" \in DOMAIN d THEN d["timeout_seconds"]
     ELSE DefaultTimeout,
   hooks |-> IF "hooks" \in DOMAIN d THEN d["hooks"] ELSE EmptyDict]

\* HooksConfiguration(enabled=False)
DisabledConfiguration ==
  [enabled |-> FALSE, parallel_execution |-> TRUE,
   timeout_seconds |-> DefaultTimeout, hooks |-> EmptyDict]

\* "if merged: return HooksConfiguration.from_dict(merged) else: return
\* HooksConfiguration(enabled=False)"
ToConfiguration(m) ==
  IF DOMAIN m # {} THEN FromDict(m) ELSE DisabledConfiguration

\* _load_configuration() with the three sources as srcs.
LoadConfiguration(srcs) ==
  LET cfgs == ReadSources(srcs)
      m == MergeConfigs(cfgs)
  IN [ok |-> m.ok, configs |-> cfgs, merged |-> m.dict,
      config |-> IF m.ok THEN ToConfiguration(m.dict)
                 ELSE DisabledConfiguration]

\* HookManager.__init__ or reload_configuration calls _load_configuration.
LoadStep ==
  /\ ldPc = "start"
  /\ LET r == LoadConfiguration(sources)
     IN /\ ldPc' = IF r.ok THEN "done" ELSE "failed"
        /\ configs' = r.configs
        /\ merged' = r.merged
        /\ loaded' = r.config
  /\ UNCHANGED <<agentVars, config, callers, lastLoaded, callVars, sources>>

\* A reload that updates the flags of the active object in place and leaves
\* its hook lists for later.
InstallFlagsOnly(new) ==
  [config EXCEPT !.enabled = new.enabled,
                 !.parallel_execution = new.parallel_execution]

\* "self.config = self._load_configuration()": the new object replaces the
\* old one in one assignment.
Install(new) == new

\* The source triples reload_configuration finds in the model: only the
\* project file is there.
ReloadSources ==
  {<<[kind |-> "missing", dict |-> EmptyDict], s,
     [kind |-> "missing", dict |-> EmptyDict]>> :
     s \in {[kind |-> "missing", dict |-> EmptyDict],
            [kind |-> "null", dict |-> EmptyDict],
            [kind |-> "object",
             dict |-> [enabled |-> TRUE, parallel_execution |-> TRUE,
                       hooks |-> ("pre_agent_start" :> ListB)]],
            [kind |-> "object",
             dict |-> [enabled |-> TRUE, parallel_execution |-> FALSE,
                       hooks |-> ("pre_agent_start" :> ListA)]]}}

\* reload_configuration(): when _load_configuration raises, the assignment
\* does not happen.
ReloadConfiguration(srcs) ==
  /\ LET r == LoadConfiguration(srcs)
     IN IF r.ok
        THEN /\ config' = Install(r.config)
             /\ lastLoaded' = r.config
        ELSE UNCHANGED <<config, lastLoaded>>
  /\ UNCHANGED <<agentVars, callers, callVars, loadVars>>

\* ------------------------------------------------- the lifecycle driver

\* "from .hook_types import HookEvent, HookEventData" succeeded.
HOOKS_AVAILABLE == TRUE

\* A get_conversation_context call that asks for the whole conversation.
ContextWindowWhole == MaxHistory

\* max_messages of the get_conversation_context call.
ContextWindow == 20

\* The time of every store operation of the run.
Today == MaxAge

\* The entry points: the MCP tool prompt_nano_agent (ctx given),
\* prompt_nano_agent called without ctx, and _execute_nano_agent as the CLI's
\* run, demo and interactive commands call it.
Entries == {"mcp", "direct", "cli"}

\* The events the drivers trigger; a driver position that awaits trigger_hook
\* has the event's name.
DriverEvents ==
  {"mcp_request_received", "pre_agent_start", "post_agent_complete",
   "agent_error", "mcp_response_ready"}

\* How the agent run ends: the provider validation fails, the runner
\* returns, the runner raises.
RunOutcomes == {"invalid", "ok", "raise"}

\* The arguments of a call that passes only the prompt; passed names the
\* parameters the caller wrote in the call (model, read_only), which the
\* function cannot see.  continue_session, new_session and save are the
\* options --continue, --new and --save/--no-save of the CLI's run, whose
\* --session is session_id.
NoArgs ==
  [session_id |-> NoId, clear_history |-> FALSE, model |-> DefaultModel,
   read_only |-> FALSE, allowed_tools |-> NoList, blocked_tools |-> NoList,
   allowed_paths |-> NoList, blocked_paths |-> NoList, passed |-> {},
   continue_session |-> FALSE, new_session |-> FALSE, save |-> TRUE]

\* mcp_session (its id, its conversation and settings as loaded), the stored
\* conversation get_conversation_context read, chat_history, the model and
\* read_only in force, and the conversation update_session appends to.  In
\* the CLI's run session_id is session_manager.current_session, and created
\* the session create_session made in this invocation.
NoLocal ==
  [session_id |-> NoId, conversation |-> <<>>, sess_model |-> NoModel,
   sess_read_only |-> FALSE, source |-> <<>>, chat_history |-> <<>>,
   model |-> DefaultModel, read_only |-> FALSE, base |-> <<>>,
   created |-> NoId]

\* No response made yet: blocked_at is the event whose hooks blocked the request,
\* names_hook the hook the error message names.
NoResponse ==
  [made |-> FALSE, success |-> FALSE, error |-> "", blocked_at |-> "",
   names_hook |-> 0, reported |-> FALSE, permissions_used |-> NoPermissions]

NoCall == [made |-> FALSE, tool |-> "", path |-> <<>>, allowed |-> FALSE]

\* No expiry yet: the store before and after it, the sessions whose lock was
\* held, the count the session manager returned and the count the caller
\* reported (-1: none).
NoExpire ==
  [ran |-> FALSE, via |-> "", days |-> 0,
   before |-> [i \in SessionIds |-> NoSession],
   after |-> [i \in SessionIds |-> NoSession],
   busy |-> {}, count |-> 0, reported |-> -1]

NoContextCall ==
  [made |-> FALSE, conversation |-> <<>>, max_messages |-> 0, result |-> <<>>]

\* PromptNanoAgentResponse(success=False, error=...)
Failure(error) ==
  [NoResponse EXCEPT !.made = TRUE, !.error = error]

\* The response to a request a hook blocked:
\* error = pre_result.blocking_reason or fallback.
Blocked(event, reason, fallback) ==
  [NoResponse EXCEPT !.made = TRUE, !.blocked_at = event,
                     !.error = IF reason.given THEN "blocked by hook"
                               ELSE fallback,
                     !.names_hook = IF reason.given THEN reason.hook ELSE 0]

\* PromptNanoAgentResponse(success=True, ..., permissions_used=permissions)
Success(permissions) ==
  [NoResponse EXCEPT !.made = TRUE, !.success = TRUE, !.reported = TRUE,
                     !.permissions_used = permissions]

\* "Apply session settings if not overridden"
ApplySettings(l, a) ==
  [l EXCEPT !.model = IF a.model = DefaultModel /\ l.sess_model # NoModel
                      THEN l.sess_model ELSE a.model,
            !.read_only = IF ~a.read_only /\ l.sess_read_only
                          THEN l.sess_read_only ELSE a.read_only]

\* The PromptNanoAgentRequest prompt_nano_agent builds.
Request(r) ==
  [args[r] EXCEPT !.model = local[r].model, !.read_only = local[r].read_only]

\* The event data a driver builds: the MCP events force context "mcp", the
\* agent events take the manager's context.
DriverData(event) ==
  [tool_name |-> "", serializable |-> TRUE,
   context |-> IF event \in {"mcp_request_received", "mcp_response_ready"}
               THEN "mcp" ELSE context,
   timestamp |-> CallerTime]

\* The blocking argument of the driver's trigger_hook call.
BlockingAt(event) == event \in {"mcp_request_received", "pre_agent_start"}

\* The trace entry of the agent runner (Runner.run, Runner.run_sync).
RunnerStep == [step |-> "runner", blocked |-> FALSE, raised |-> FALSE]

\* A driver that goes on after a blocked pre-hook.
StopsRequestNever(result) == FALSE

\* "if pre_result.blocked: return ..."
StopsRequest(result) == result.blocked

\* Where prompt_nano_agent goes on after _execute_nano_agent_async returned.
AfterExecute(e) == IF e = "mcp" THEN "mcp_response_ready" ELSE "returned"

\* A request arrives at an entry point.
Start(r, e, a) ==
  /\ r \in callers
  /\ dpc[r] = "idle"
  /\ entry' = [entry EXCEPT ![r] = e]
  /\ args' = [args EXCEPT ![r] = a]
  /\ local' = [local EXCEPT ![r] = [NoLocal EXCEPT !.model = a.model,
                                                   !.read_only = a.read_only]]
  /\ dpc' = [dpc EXCEPT ![r] = CASE e = "mcp" -> "get_session"
                                 [] e = "direct" -> "pre_agent_start"
                                 [] OTHER -> "cli_session"]
  /\ UNCHANGED <<config, callers, lastLoaded, callVars, loadVars, context,
                 response, trace, toolCall, sessionVars>>

\* "mcp_session = await session_manager.get_or_create_session(...)" and the
\* lines up to the next await.
GetOrCreateSession(r, createWins) ==
  /\ dpc[r] = "get_session"
  /\ LET a == args[r] IN
     /\ Creates(store, a.session_id, a.clear_history, createWins) =>
          SessionIds \ Existing(store) # {}
     /\ LET g == GetOrCreate(store, a.session_id, a.clear_history, createWins,
                             Today)
            sess == g.store[g.id]
            l == [local[r] EXCEPT
                    !.session_id = g.id,
                    !.conversation = IF a.clear_history THEN <<>>
                                     ELSE sess.conversation,
                    !.sess_model = sess.model,
                    !.sess_read_only = sess.read_only]
        IN /\ store' = g.store
           /\ IF ~a.clear_history /\ sess.conversation # <<>>
              THEN /\ local' = [local EXCEPT ![r] = l]
                   /\ dpc' = [dpc EXCEPT ![r] = "get_context"]
              ELSE /\ local' = [local EXCEPT ![r] = ApplySettings(l, a)]
                   /\ dpc' = [dpc EXCEPT ![r] = "mcp_request_received"]
  /\ UNCHANGED <<config, callers, lastLoaded, callVars, loadVars, context,
                 entry, args, response, trace, toolCall, writer, expireLog, contextCall>>

\* "chat_history = await session_manager.get_conversation_context(...)" and
\* the lines up to the next await.
GetConversationContext(r) ==
  /\ dpc[r] = "get_context"
  /\ LET stored == store[local[r].session_id].conversation
         l == [local[r] EXCEPT
                 !.source = stored,
                 !.chat_history = GetContext(stored, ContextWindow)]
     IN local' = [local EXCEPT ![r] = ApplySettings(l, args[r])]
  /\ dpc' = [dpc EXCEPT ![r] = "mcp_request_received"]
  /\ UNCHANGED <<config, callers, lastLoaded, callVars, loadVars, context,
                 entry, args, response, trace, toolCall, sessionVars>>

\* The driver's "await hook_manager.trigger_hook(...)" starts.
CallHook(r) ==
  /\ HOOKS_AVAILABLE
  /\ dpc[r] \in DriverEvents
  /\ TriggerBegin(r, dpc[r], DriverData(dpc[r]), BlockingAt(dpc[r]))

\* get_hook_manager(), the HookEventData constructor (os.getcwd()) or the
\* read of hook_manager.context raises inside the driver's try, before
\* trigger_hook is called.
HookSetupRaises(r) ==
  /\ HOOKS_AVAILABLE
  /\ dpc[r] \in DriverEvents
  /\ pc[r] = "idle"
  /\ pc' = [pc EXCEPT ![r] = "raised"]
  /\ UNCHANGED <<config, callers, lastLoaded, loadVars, context, driverVars,
                 sessionVars, req, applicable, parallel, tasks, taskResult,
                 loopIdx, results, totalTime, ret, invoked, started, killed,
                 seen>>

\* A driver whose except clause ends the request.
StopsOnError(r) == pc[r] = "raised" \/ StopsRequest(ret[r])

\* The driver leaves the request at a blocking event: trigger_hook returned
\* and the result is blocked; "except Exception" only logs a warning.
Stops(r) == pc[r] = "done" /\ StopsRequest(ret[r])

\* The call's variables as they are before a call.
ResetCall(r) ==
  /\ pc' = [pc EXCEPT ![r] = "idle"]
  /\ req' = [req EXCEPT ![r] = NoReq]
  /\ applicable' = [applicable EXCEPT ![r] = <<>>]
  /\ parallel' = [parallel EXCEPT ![r] = FALSE]
  /\ tasks' = [tasks EXCEPT ![r] = <<>>]
  /\ taskResult' = [taskResult EXCEPT ![r] = <<>>]
  /\ loopIdx' = [loopIdx EXCEPT ![r] = 0]
  /\ results' = [results EXCEPT ![r] = <<>>]
  /\ totalTime' = [totalTime EXCEPT ![r] = 0]
  /\ ret' = [ret EXCEPT ![r] = NoRet]
  /\ invoked' = [invoked EXCEPT ![r] = <<>>]
  /\ started' = [started EXCEPT ![r] = <<>>]
  /\ killed' = [killed EXCEPT ![r] = {}]
  /\ UNCHANGED seen

\* trigger_hook returned to the driver, or raised into its except clause:
\* the lines of the driver up to its next await.
HookReturn(r) ==
  /\ dpc[r] \in DriverEvents
  /\ pc[r] \in {"done", "raised"}
  /\ LET event == dpc[r]
         stops == Stops(r)
     IN /\ trace' = [trace EXCEPT
                     ![r] = Append(@, [step |-> event,
                                       blocked |-> pc[r] = "done"
                                                   /\ ret[r].blocked,
                                       raised |-> pc[r] = "raised"])]
        /\ CASE event = "mcp_request_received" ->
                  IF stops
                  THEN /\ response' =
                            [response EXCEPT
                               ![r] = Blocked(event, ret[r].blocking_reason,
                                              "MCP request blocked by hook")]
                       /\ dpc' = [dpc EXCEPT ![r] = "returned"]
                  ELSE /\ dpc' = [dpc EXCEPT ![r] = "pre_agent_start"]
                       /\ UNCHANGED response
             [] event = "pre_agent_start" ->
                  IF stops
                  THEN /\ response' =
                            [response EXCEPT
                               ![r] = Blocked(event, ret[r].blocking_reason,
                                              "Agent execution blocked by hook")]
                       /\ dpc' = [dpc EXCEPT ![r] = AfterExecute(entry[r])]
                  ELSE /\ dpc' = [dpc EXCEPT ![r] = "run"]
                       /\ UNCHANGED response
             [] event = "post_agent_complete" ->
                  /\ response' = [response EXCEPT
                                    ![r] = Success(ToolPermissions(Request(r)))]
                  /\ dpc' = [dpc EXCEPT ![r] = AfterExecute(entry[r])]
             [] event = "agent_error" ->
                  /\ response' = [response EXCEPT
                                    ![r] = Failure("Agent SDK execution failed")]
                  /\ dpc' = [dpc EXCEPT ![r] = AfterExecute(entry[r])]
             [] OTHER ->
                  /\ dpc' = [dpc EXCEPT ![r] = "update_session"]
                  /\ UNCHANGED response
  /\ ResetCall(r)
  /\ UNCHANGED <<config, callers, lastLoaded, loadVars, context, entry, args,
                 local, toolCall, sessionVars>>

\* A driver that reports every run as completed.
AfterRunnerAlwaysComplete(outcome) == "post_agent_complete"

\* The hook _execute_nano_agent_async triggers after the runner: the one of
\* the try's last lines when it returned, the one of "except Exception" when
\* it raised.
AfterRunner(outcome) ==
  IF outcome = "ok" THEN "post_agent_complete" ELSE "agent_error"

\* _execute_nano_agent_async from the provider validation to the await of
\* the post_agent_complete or agent_error hooks: the agent makes one tool
\* call, which the permissions of the request decide.
RunAgent(r, outcome, tool, path) ==
  /\ dpc[r] = "run"
  /\ CASE outcome = "invalid" ->
            /\ response' = [response EXCEPT ![r] = Failure("invalid provider")]
            /\ dpc' = [dpc EXCEPT ![r] = AfterExecute(entry[r])]
            /\ UNCHANGED <<trace, toolCall>>
       [] outcome = "ok" ->
            /\ trace' = [trace EXCEPT ![r] = Append(@, RunnerStep)]
            /\ toolCall' =
                 [toolCall EXCEPT
                    ![r] = [made |-> TRUE, tool |-> tool, path |-> path,
                            allowed |-> CheckPermission(
                                          ToolPermissions(Request(r)),
                                          tool, path)]]
            /\ dpc' = [dpc EXCEPT ![r] = AfterRunner(outcome)]
            /\ UNCHANGED response
       [] OTHER ->
            /\ trace' = [trace EXCEPT ![r] = Append(@, RunnerStep)]
            /\ dpc' = [dpc EXCEPT ![r] = AfterRunner(outcome)]
            /\ UNCHANGED <<response, toolCall>>
  /\ UNCHANGED <<config, callers, lastLoaded, callVars, loadVars, context,
                 entry, args, local, sessionVars>>

\* _execute_nano_agent, the synchronous execution the CLI commands call: it
\* has no await and triggers no hook.
CliRun(r, outcome, tool, path) ==
  /\ dpc[r] = "cli_run"
  /\ CASE outcome = "invalid" ->
            /\ response' = [response EXCEPT ![r] = Failure("invalid provider")]
            /\ UNCHANGED <<trace, toolCall>>
       [] outcome = "ok" ->
            /\ trace' = [trace EXCEPT ![r] = Append(@, RunnerStep)]
            /\ toolCall' =
                 [toolCall EXCEPT
                    ![r] = [made |-> TRUE, tool |-> tool, path |-> path,
                            allowed |-> CheckPermission(
                                          ToolPermissions(Request(r)),
                                          tool, path)]]
            /\ response' = [response EXCEPT
                              ![r] = Success(ToolPermissions(Request(r)))]
       [] OTHER ->
            /\ trace' = [trace EXCEPT ![r] = Append(@, RunnerStep)]
            /\ response' = [response EXCEPT
                              ![r] = Failure("Agent SDK execution failed")]
            /\ UNCHANGED toolCall
  /\ dpc' = [dpc EXCEPT ![r] = "cli_save"]
  /\ UNCHANGED <<config, callers, lastLoaded, callVars, loadVars, context,
                 entry, args, local, sessionVars>>

\* A run that does not look at --new.
ForcesNewNever(a) == FALSE

\* "and not new_session" of the two branches that load a session.
ForcesNew(a) == a.new_session

\* The session management of the CLI's run, from SessionManager() to
\* create_session: get_last_session and load_session make the session they
\* find the current one, create_session a new one.
CliSession(r) ==
  /\ dpc[r] = "cli_session"
  /\ LET a == args[r]
         found ==
           IF a.continue_session /\ ~ForcesNew(a)
           THEN (IF Existing(store) # {} THEN MostRecent(store) ELSE NoId)
           ELSE IF a.session_id # NoId /\ ~ForcesNew(a)
           THEN (IF store[a.session_id].exists THEN a.session_id ELSE NoId)
           ELSE NoId
         model == IF found # NoId /\ a.model = DefaultModel
                  THEN store[found].model ELSE a.model
         creates == a.save /\ found = NoId
         l == [local[r] EXCEPT
                 !.chat_history =
                   IF found = NoId THEN <<>>
                   ELSE GetContext(store[found].conversation, ContextWindow),
                 !.model = model]
     IN /\ creates => SessionIds \ Existing(store) # {}
        /\ IF creates
           THEN /\ store' = [store EXCEPT
                               ![FreshId(store)] =
                                 [NewSession(Today) EXCEPT !.model = model]]
                /\ local' = [local EXCEPT
                               ![r] = [l EXCEPT !.session_id = FreshId(store),
                                                !.created = FreshId(store)]]
           ELSE /\ local' = [local EXCEPT ![r] = [l EXCEPT !.session_id = found]]
                /\ UNCHANGED store
  /\ dpc' = [dpc EXCEPT ![r] = "cli_run"]
  /\ UNCHANGED <<config, callers, lastLoaded, callVars, loadVars, context,
                 entry, args, response, trace, toolCall, writer, expireLog,
                 contextCall>>

\* The end of the CLI's run: "if response.success: ... if save and
\* session_manager.current_session: session_manager.add_exchange(...)".
CliSave(r) ==
  /\ dpc[r] = "cli_save"
  /\ LET id == local[r].session_id IN
     IF response[r].success /\ args[r].save /\ id # NoId
     THEN store' = [store EXCEPT
                      ![id] = AppendExchange(store[id], store[id].conversation,
                                             UserMessage(r),
                                             AssistantMessage(r), Today)]
     ELSE UNCHANGED store
  /\ dpc' = [dpc EXCEPT ![r] = "returned"]
  /\ UNCHANGED <<config, callers, lastLoaded, callVars, loadVars, context,
                 entry, args, local, response, trace, toolCall, writer,
                 expireLog, contextCall>>

\* The expiry takes the lock of every session it deletes.
ExpireWaits(st, days) ==
  \A i \in Expired(st, days, Today) : writer[i] = 0

\* "await session_manager.update_session(...)" begins: it takes the
\* session's lock and reads the stored session.  When the session is gone
\* the call raises into the except clause and the request returns.
UpdateSession(r) ==
  /\ dpc[r] = "update_session"
  /\ LET id == local[r].session_id IN
     IF store[id].exists
     THEN /\ writer[id] = 0
          /\ writer' = [writer EXCEPT ![id] = r]
          /\ local' = [local EXCEPT
                         ![r].base = AppendBase(store[id].conversation,
                                                local[r].conversation)]
          /\ dpc' = [dpc EXCEPT ![r] = "write_session"]
     ELSE /\ dpc' = [dpc EXCEPT ![r] = "returned"]
          /\ UNCHANGED <<writer, local>>
  /\ UNCHANGED <<config, callers, lastLoaded, callVars, loadVars, context,
                 entry, args, response, trace, toolCall, store, expireLog, contextCall>>

\* update_session writes the session with the exchange appended and
\* releases the lock.
WriteSession(r) ==
  /\ dpc[r] = "write_session"
  /\ LET id == local[r].session_id IN
     /\ store' = [store EXCEPT
                    ![id] = AppendExchange(store[id], local[r].base,
                                           UserMessage(r), AssistantMessage(r),
                                           Today)]
     /\ writer' = [writer EXCEPT ![id] = 0]
  /\ dpc' = [dpc EXCEPT ![r] = "update_settings"]
  /\ UNCHANGED <<config, callers, lastLoaded, callVars, loadVars, context,
                 entry, args, local, response, trace, toolCall, expireLog, contextCall>>

\* "await session_manager.update_session_settings(...)" with the model and
\* read_only in force, and the return of prompt_nano_agent.
UpdateSessionSettings(r) ==
  /\ dpc[r] = "update_settings"
  /\ LET id == local[r].session_id IN
     IF store[id].exists
     THEN /\ writer[id] = 0
          /\ store' = [store EXCEPT ![id].model = local[r].model,
                                    ![id].read_only = local[r].read_only]
     ELSE UNCHANGED store
  /\ dpc' = [dpc EXCEPT ![r] = "returned"]
  /\ UNCHANGED <<config, callers, lastLoaded, callVars, loadVars, context,
                 entry, args, local, response, trace, toolCall, writer,
                 expireLog, contextCall>>

\* clear_old_sessions(days) of the session manager, called by the CLI's
\* "sessions clear", which prints the count returned, or by the MCP tool
\* clear_old_sessions with a ctx, which reports success without the count.
ClearOldSessions(via, days) ==
  /\ ~expireLog.ran
  /\ ExpireWaits(store, days)
  /\ LET gone == Expired(store, days, Today)
         left == [i \in SessionIds |->
                    IF i \in gone THEN NoSession ELSE store[i]]
     IN /\ store' = left
        /\ expireLog' =
             [ran |-> TRUE, via |-> via, days |-> days, before |-> store,
              after |-> left, busy |-> {i \in SessionIds : writer[i] # 0},
              count |-> Cardinality(gone),
              reported |-> IF via = "cli" THEN Cardinality(gone) ELSE -1]
  /\ UNCHANGED <<config, callers, lastLoaded, callVars, loadVars, context,
                 driverVars, writer, contextCall>>

\* get_context(session, max_messages) as any caller may call it.
GetContextOf(i, k) ==
  /\ ~contextCall.made
  /\ store[i].exists
  /\ contextCall' =
       [made |-> TRUE, conversation |-> store[i].conversation,
        max_messages |-> k, result |-> GetContext(store[i].conversation, k)]
  /\ UNCHANGED <<config, callers, lastLoaded, callVars, loadVars, context,
                 driverVars, store, writer, expireLog>>

\* ------------------------------------------------------------- behaviours

\* The configurations a manager may hold: both flags and one hook list of at
\* most MaxHooks hooks per configured event.
Configurations ==
  {[enabled |-> e, parallel_execution |-> p,
    timeout_seconds |-> DefaultTimeout, hooks |-> (ev :> l)] :
     e \in BOOLEAN, p \in BOOLEAN, ev \in Events,
     l \in UNION {HookLists(n) : n \in 0..MaxHooks}}

CallInit ==
  /\ pc = [c \in Calls |-> "idle"]
  /\ req = [c \in Calls |-> NoReq]
  /\ applicable = [c \in Calls |-> <<>>]
  /\ parallel = [c \in Calls |-> FALSE]
  /\ tasks = [c \in Calls |-> <<>>]
  /\ taskResult = [c \in Calls |-> <<>>]
  /\ loopIdx = [c \in Calls |-> 0]
  /\ results = [c \in Calls |-> <<>>]
  /\ totalTime = [c \in Calls |-> 0]
  /\ ret = [c \in Calls |-> NoRet]
  /\ invoked = [c \in Calls |-> <<>>]
  /\ started = [c \in Calls |-> <<>>]
  /\ killed = [c \in Calls |-> {}]
  /\ seen = [c \in Calls |-> [read |-> ConfigRead(DisabledConfiguration, ""),
                             loaded |-> ConfigRead(DisabledConfiguration, "")]]

\* No request has arrived, the store is empty.
DriverIdle ==
  /\ entry = [r \in Calls |-> ""]
  /\ dpc = [r \in Calls |-> "idle"]
  /\ args = [r \in Calls |-> NoArgs]
  /\ local = [r \in Calls |-> NoLocal]
  /\ response = [r \in Calls |-> NoResponse]
  /\ trace = [r \in Calls |-> <<>>]
  /\ toolCall = [r \in Calls |-> NoCall]

StoreIdle ==
  /\ writer = [i \in SessionIds |-> 0]
  /\ expireLog = NoExpire
  /\ contextCall = NoContextCall

EmptyStore == [i \in SessionIds |-> NoSession]

AgentIdle ==
  /\ DriverIdle
  /\ StoreIdle
  /\ store = EmptyStore

NoSources == <<[kind |-> "missing", dict |-> EmptyDict],
               [kind |-> "missing", dict |-> EmptyDict],
               [kind |-> "missing", dict |-> EmptyDict]>>

LoadIdle ==
  /\ sources = NoSources
  /\ ldPc = "start"
  /\ configs = <<>>
  /\ merged = EmptyDict
  /\ loaded = DisabledConfiguration

\* One trigger_hook call on a manager holding any configuration.
Init ==
  /\ config \in Configurations
  /\ context = "cli"
  /\ lastLoaded = config
  /\ callers = {1}
  /\ CallInit
  /\ LoadIdle
  /\ AgentIdle

Next ==
  \/ \E c \in Calls, e \in Events, d \in EventData, b \in BOOLEAN :
       TriggerBegin(c, e, d, b)
  \/ \E c \in Calls, s \in BOOLEAN : LoopStart(c, s, Tick)
  \/ \E c \in Calls, o \in Outcomes : LoopComplete(c, o, Tick)
  \/ \E c \in Calls, i \in 1..MaxHooks, s \in BOOLEAN :
       TaskStart(c, i, s, Tick)
  \/ \E c \in Calls, i \in 1..MaxHooks, o \in Outcomes :
       TaskComplete(c, i, o, Tick)
  \/ \E c \in Calls : GatherJoin(c)

Spec == Init /\ [][Next]_vars

\* Concurrent trigger_hook calls with reload_configuration in between.
InitReload ==
  /\ \E srcs \in ReloadSources :
       /\ LoadConfiguration(srcs).ok
       /\ config = LoadConfiguration(srcs).config
  /\ context = "cli"
  /\ lastLoaded = config
  /\ callers = Calls
  /\ CallInit
  /\ LoadIdle
  /\ AgentIdle

NextReload ==
  \/ Next
  \/ \E srcs \in ReloadSources : ReloadConfiguration(srcs)

SpecReload == InitReload /\ [][NextReload]_vars

\* _load_configuration on any three sources.
InitLoad ==
  /\ config = DisabledConfiguration
  /\ context = "cli"
  /\ lastLoaded = config
  /\ callers = {}
  /\ CallInit
  /\ AgentIdle
  /\ sources \in Sources \X Sources \X Sources
  /\ ldPc = "start"
  /\ configs = <<>>
  /\ merged = EmptyDict
  /\ loaded = DisabledConfiguration

NextLoad == LoadStep

SpecLoad == InitLoad /\ [][NextLoad]_vars

\* One trigger_hook call with event data whose context and timestamp the
\* caller set or left unset, on a manager in either context.
InitStamp ==
  /\ config \in {cfg \in Configurations :
                   \A e \in DOMAIN cfg.hooks : Len(cfg.hooks[e]) <= 1}
  /\ context \in Contexts
  /\ lastLoaded = config
  /\ callers = {1}
  /\ CallInit
  /\ LoadIdle
  /\ AgentIdle

NextStamp ==
  \/ \E c \in Calls, e \in Events, d \in AnyEventData, b \in BOOLEAN :
       TriggerBegin(c, e, d, b)
  \/ \E c \in Calls, s \in BOOLEAN : LoopStart(c, s, Tick)
  \/ \E c \in Calls, o \in Outcomes : LoopComplete(c, o, Tick)
  \/ \E c \in Calls, i \in 1..MaxHooks, s \in BOOLEAN :
       TaskStart(c, i, s, Tick)
  \/ \E c \in Calls, i \in 1..MaxHooks, o \in Outcomes :
       TaskComplete(c, i, o, Tick)
  \/ \E c \in Calls : GatherJoin(c)

SpecStamp == InitStamp /\ [][NextStamp]_vars

\* One trigger_hook call whose hooks take any time up to MaxTime: hooks are
\* enabled globally, every hook matches, the event data serializes.
InitTime ==
  /\ config \in {cfg \in Configurations :
                   /\ cfg.enabled
                   /\ DOMAIN cfg.hooks = {"pre_agent_start"}
                   /\ \A i \in 1..Len(cfg.hooks["pre_agent_start"]) :
                        cfg.hooks["pre_agent_start"][i].matcher = NoMatcher}
  /\ context = "cli"
  /\ lastLoaded = config
  /\ callers = {1}
  /\ CallInit
  /\ LoadIdle
  /\ AgentIdle

NextTime ==
  \/ \E c \in Calls, b \in BOOLEAN :
       TriggerBegin(c, "pre_agent_start",
                    [tool_name |-> "read_file", serializable |-> TRUE,
                     context |-> "cli", timestamp |-> CallerTime], b)
  \/ \E c \in Calls, s \in BOOLEAN, t \in Durations : LoopStart(c, s, t)
  \/ \E c \in Calls, o \in Outcomes, t \in Durations :
       LoopComplete(c, o, t)
  \/ \E c \in Calls, i \in 1..MaxHooks, s \in BOOLEAN, t \in Durations :
       TaskStart(c, i, s, t)
  \/ \E c \in Calls, i \in 1..MaxHooks, o \in Outcomes,
        t \in Durations :
       TaskComplete(c, i, o, t)
  \/ \E c \in Calls : GatherJoin(c)

SpecTime == InitTime /\ [][NextTime]_vars

\* The hook lists of the driver runs: no hook, or one enabled hook without
\* matcher.
DriverHookLists ==
  {<<>>} \cup {<<h>> : h \in {x \in HookConfigs(1) :
                                x.enabled /\ x.matcher = NoMatcher}}

\* Configurations with hooks for the two blocking events and for
\* post_agent_complete.
DriverConfigurations ==
  {[enabled |-> e, parallel_execution |-> p,
    timeout_seconds |-> DefaultTimeout,
    hooks |-> ("mcp_request_received" :> l1) @@ ("pre_agent_start" :> l2)
              @@ ("post_agent_complete" :> l3)] :
     e \in BOOLEAN, p \in BOOLEAN, l1 \in DriverHookLists,
     l2 \in DriverHookLists, l3 \in DriverHookLists}

\* A stored session with a history, a model and read_only as given.
StoredSession(n, model, read_only, t) ==
  [exists |-> TRUE, conversation |-> History(n), model |-> model,
   read_only |-> read_only, updated |-> t]

\* One request at any entry point, hooks configured, one stored session;
\* _detect_context found either context in the process environment.
InitDriver ==
  /\ config \in DriverConfigurations
  /\ context \in Contexts
  /\ lastLoaded = config
  /\ callers = {1}
  /\ CallInit
  /\ LoadIdle
  /\ DriverIdle
  /\ StoreIdle
  /\ store = [EmptyStore EXCEPT ![1] = StoredSession(2, "gpt-5", FALSE, 0)]

DriverArgs == {[NoArgs EXCEPT !.session_id = i] : i \in {NoId, 1}}

NextDriver ==
  \/ \E r \in Calls, e \in Entries, a \in DriverArgs : Start(r, e, a)
  \/ \E r \in Calls, w \in BOOLEAN : GetOrCreateSession(r, w)
  \/ \E r \in Calls : GetConversationContext(r)
  \/ \E r \in Calls : CallHook(r)
  \/ \E r \in Calls : HookSetupRaises(r)
  \/ \E c \in Calls, s \in BOOLEAN : LoopStart(c, s, Tick)
  \/ \E c \in Calls, o \in Outcomes : LoopComplete(c, o, Tick)
  \/ \E c \in Calls, i \in 1..MaxHooks, s \in BOOLEAN :
       TaskStart(c, i, s, Tick)
  \/ \E c \in Calls, i \in 1..MaxHooks, o \in Outcomes :
       TaskComplete(c, i, o, Tick)
  \/ \E c \in Calls : GatherJoin(c)
  \/ \E r \in Calls : HookReturn(r)
  \/ \E r \in Calls, o \in RunOutcomes : RunAgent(r, o, "write_file", <<"src", "main">>)
  \/ \E r \in Calls : CliSession(r)
  \/ \E r \in Calls, o \in RunOutcomes : CliRun(r, o, "write_file", <<"src", "main">>)
  \/ \E r \in Calls : CliSave(r)
  \/ \E r \in Calls : UpdateSession(r)
  \/ \E r \in Calls : WriteSession(r)
  \/ \E r \in Calls : UpdateSessionSettings(r)

SpecDriver == InitDriver /\ [][NextDriver]_vars

\* The sessions of the CLI before the run: session 1 with a history, the
\* more recent session 2 with none.
CliStore ==
  [EmptyStore EXCEPT ![1] = StoredSession(2, "gpt-5", FALSE, 0),
                     ![2] = StoredSession(0, DefaultModel, FALSE, 1)]

\* The options of the CLI's run: --continue, --session with the id of a
\* stored session or of none, --new, --save or --no-save.
CliArgs ==
  {[NoArgs EXCEPT !.continue_session = c, !.session_id = i,
                  !.new_session = n, !.save = sv] :
     c \in BOOLEAN, i \in {NoId, 1, MaxSessions}, n \in BOOLEAN,
     sv \in BOOLEAN}

\* One invocation of the CLI's run with any options, on a store with or
\* without earlier sessions.  Hooks are disabled.
InitCli ==
  /\ config = DisabledConfiguration
  /\ context = "cli"
  /\ lastLoaded = config
  /\ callers = {1}
  /\ CallInit
  /\ LoadIdle
  /\ DriverIdle
  /\ StoreIdle
  /\ store \in {EmptyStore, CliStore}

NextCli ==
  \/ \E r \in Calls, a \in CliArgs : Start(r, "cli", a)
  \/ \E r \in Calls : CliSession(r)
  \/ \E r \in Calls, o \in RunOutcomes :
       CliRun(r, o, "read_file", <<"src", "main">>)
  \/ \E r \in Calls : CliSave(r)

SpecCli == InitCli /\ [][NextCli]_vars

\* The tools the lists of the checked requests name; edit_file is called
\* but never listed.
ListedTools == {"read_file", "write_file"}

\* Requests with any permission arguments, outside an MCP context.
PermissionArgs ==
  {[NoArgs EXCEPT !.read_only = ro, !.allowed_tools = at,
                  !.blocked_tools = bt, !.allowed_paths = ap,
                  !.blocked_paths = bp] :
     ro \in BOOLEAN, at \in OptionalLists(ListedTools),
     bt \in OptionalLists(ListedTools), ap \in OptionalLists(Patterns),
     bp \in OptionalLists(Patterns)}

\* Requests of an MCP client that continue session 1, with a model and
\* read_only passed or left at their defaults, and an allow list that names
\* a writing tool or not.
SessionPermissionArgs ==
  {a \in {[NoArgs EXCEPT !.session_id = 1, !.model = mo, !.read_only = ro,
                         !.allowed_tools = at, !.passed = pa] :
            mo \in Models, ro \in BOOLEAN,
            at \in {NoList,
                    [given |-> TRUE, items |-> {"read_file", "write_file"}]},
            pa \in SUBSET {"model", "read_only"}} :
     /\ a.model # DefaultModel => "model" \in a.passed
     /\ a.read_only => "read_only" \in a.passed}

\* One request whose agent makes one tool call; hooks are disabled; the
\* stored session has read_only set or not.
InitPerm ==
  /\ config = DisabledConfiguration
  /\ context = "cli"
  /\ lastLoaded = config
  /\ callers = {1}
  /\ CallInit
  /\ LoadIdle
  /\ DriverIdle
  /\ StoreIdle
  /\ \E ro \in BOOLEAN :
       store = [EmptyStore EXCEPT ![1] = StoredSession(2, "gpt-5", ro, 0)]

NextPerm ==
  \/ \E r \in Calls :
       dpc[r] = "idle" /\ \E a \in PermissionArgs : Start(r, "direct", a)
  \/ \E r \in Calls :
       dpc[r] = "idle" /\ \E a \in SessionPermissionArgs : Start(r, "mcp", a)
  \/ \E r \in Calls, w \in BOOLEAN : GetOrCreateSession(r, w)
  \/ \E r \in Calls : GetConversationContext(r)
  \/ \E r \in Calls : CallHook(r)
  \/ \E r \in Calls : HookReturn(r)
  \/ \E r \in Calls :
       /\ dpc[r] = "run"
       /\ \E o \in RunOutcomes, t \in AgentTools, p \in Paths :
            RunAgent(r, o, t, p)
  \/ \E r \in Calls : UpdateSession(r)
  \/ \E r \in Calls : WriteSession(r)
  \/ \E r \in Calls : UpdateSessionSettings(r)

SpecPerm == InitPerm /\ [][NextPerm]_vars

\* Requests of an MCP client that name session 1 or no session, and ask to
\* clear the history or not.
SessionArgs ==
  {[NoArgs EXCEPT !.session_id = i, !.clear_history = c] :
     i \in {NoId, 1}, c \in BOOLEAN}

\* One request of an MCP client and one get_context call; session 1 is
\* stored with a history of any length up to MaxHistory, a model and
\* read_only set.  Hooks are disabled.
InitHistory ==
  /\ config = DisabledConfiguration
  /\ context = "mcp"
  /\ lastLoaded = config
  /\ callers = {1}
  /\ CallInit
  /\ LoadIdle
  /\ DriverIdle
  /\ StoreIdle
  /\ \E n \in 0..MaxHistory :
       store = [EmptyStore EXCEPT ![1] = StoredSession(n, "gpt-5", TRUE, 0)]

NextHistory ==
  \/ \E i \in SessionIds, k \in 0..(MaxHistory + 1) : GetContextOf(i, k)
  \/ \E r \in Calls, a \in SessionArgs : Start(r, "mcp", a)
  \/ \E r \in Calls, w \in BOOLEAN : GetOrCreateSession(r, w)
  \/ \E r \in Calls : GetConversationContext(r)
  \/ \E r \in Calls : CallHook(r)
  \/ \E r \in Calls : HookReturn(r)
  \/ \E r \in Calls, o \in RunOutcomes :
       RunAgent(r, o, "read_file", <<"src", "main">>)
  \/ \E r \in Calls : UpdateSession(r)
  \/ \E r \in Calls : WriteSession(r)
  \/ \E r \in Calls : UpdateSessionSettings(r)

SpecHistory == InitHistory /\ [][NextHistory]_vars

\* Two concurrent requests of one MCP client; session 1 is stored with a
\* short history or none.  Hooks are disabled.
InitSession ==
  /\ config = DisabledConfiguration
  /\ context = "mcp"
  /\ lastLoaded = config
  /\ callers = Calls
  /\ CallInit
  /\ LoadIdle
  /\ DriverIdle
  /\ StoreIdle
  /\ \E n \in {0, 2} :
       store = [EmptyStore EXCEPT ![1] = StoredSession(n, "gpt-5", FALSE, 0)]

NextSession ==
  \/ \E r \in Calls, a \in SessionArgs : Start(r, "mcp", a)
  \/ \E r \in Calls, w \in BOOLEAN : GetOrCreateSession(r, w)
  \/ \E r \in Calls : GetConversationContext(r)
  \/ \E r \in Calls : CallHook(r)
  \/ \E r \in Calls : HookReturn(r)
  \/ \E r \in Calls, o \in RunOutcomes :
       RunAgent(r, o, "read_file", <<"src", "main">>)
  \/ \E r \in Calls : UpdateSession(r)
  \/ \E r \in Calls : WriteSession(r)
  \/ \E r \in Calls : UpdateSessionSettings(r)

SpecSession == InitSession /\ [][NextSession]_vars

\* Requests on session 1 that pass read_only = true or leave it at its
\* default.
ReadOnlyArgs ==
  {[NoArgs EXCEPT !.session_id = 1, !.read_only = ro,
                  !.passed = IF ro THEN {"read_only"} ELSE {}] :
     ro \in BOOLEAN}

\* Two concurrent requests of one MCP client on session 1, which is stored
\* with read_only set or not.  Hooks are disabled.
InitSticky ==
  /\ config = DisabledConfiguration
  /\ context = "mcp"
  /\ lastLoaded = config
  /\ callers = Calls
  /\ CallInit
  /\ LoadIdle
  /\ DriverIdle
  /\ StoreIdle
  /\ \E n \in {0, 2}, ro \in BOOLEAN :
       store = [EmptyStore EXCEPT ![1] = StoredSession(n, "gpt-5", ro, 0)]

NextSticky ==
  \/ \E r \in Calls, a \in ReadOnlyArgs : Start(r, "mcp", a)
  \/ \E r \in Calls, w \in BOOLEAN : GetOrCreateSession(r, w)
  \/ \E r \in Calls : GetConversationContext(r)
  \/ \E r \in Calls : CallHook(r)
  \/ \E r \in Calls : HookReturn(r)
  \/ \E r \in Calls, o \in RunOutcomes :
       RunAgent(r, o, "write_file", <<"src", "main">>)
  \/ \E r \in Calls : UpdateSession(r)
  \/ \E r \in Calls : WriteSession(r)
  \/ \E r \in Calls : UpdateSessionSettings(r)

SpecSticky == InitSticky /\ [][NextSticky]_vars

\* The sessions the store may hold before an expiry: none, or one last
\* updated at any time up to Today.
AgedSessions ==
  {NoSession} \cup {StoredSession(0, "gpt-5", FALSE, t) : t \in 0..MaxAge}

\* One request of an MCP client on session 1 and one expiry; sessions 1 and
\* 2 are stored with any age.  Hooks are disabled.
InitExpire ==
  /\ config = DisabledConfiguration
  /\ context = "mcp"
  /\ lastLoaded = config
  /\ callers = {1}
  /\ CallInit
  /\ LoadIdle
  /\ DriverIdle
  /\ StoreIdle
  /\ \E s1 \in AgedSessions \ {NoSession}, s2 \in AgedSessions :
       store = [EmptyStore EXCEPT ![1] = s1, ![2] = s2]

NextExpire ==
  \/ \E via \in {"cli", "mcp"}, days \in 0..MaxAge : ClearOldSessions(via, days)
  \/ \E r \in Calls : Start(r, "mcp", [NoArgs EXCEPT !.session_id = 1])
  \/ \E r \in Calls, w \in BOOLEAN : GetOrCreateSession(r, w)
  \/ \E r \in Calls : CallHook(r)
  \/ \E r \in Calls : HookReturn(r)
  \/ \E r \in Calls, o \in RunOutcomes :
       RunAgent(r, o, "read_file", <<"src", "main">>)
  \/ \E r \in Calls : UpdateSession(r)
  \/ \E r \in Calls : WriteSession(r)
  \/ \E r \in Calls : UpdateSessionSettings(r)

SpecExpire == InitExpire /\ [][NextExpire]_vars

\* ------------------------------------------------------------ properties

Range(f) == {f[i] : i \in DOMAIN f}

\* The position in applicable_hooks of the hook a result names.
IndexOf(c, result) ==
  CHOOSE j \in 1..Len(applicable[c]) :
    applicable[c][j].name = result.hook_name

\* The positions of the results list whose result is for the hook at j.
ResultsFor(c, j) ==
  {i \in 1..Len(results[c]) :
     results[c][i].hook_name = applicable[c][j].name}

\* The hook at j was run as a process that exited with a nonzero code.
ExitedNonzero(c, j) ==
  \E i \in ResultsFor(c, j) :
    results[c][i].exit_code # 0 /\ results[c][i].error = ""

\* The hooks of the configuration the call read that match its event data.
MatchedHooks(c) ==
  SelectSeq(seen[c].read.hooks, LAMBDA h : Matches(h, req[c].data))

\* The call took the sequential branch: parallel_execution is false or the
\* caller passed blocking = true.
SequentialMode(c) ==
  ~seen[c].read.parallel_execution \/ req[c].blocking

Names(rs) == [i \in 1..Len(rs) |-> rs[i].hook_name]

HookNames(hooks) == [i \in 1..Len(hooks) |-> hooks[i].name]

\* C1: with the global enabled flag false, trigger_hook returns at once a
\* HookResult with hooks_executed = 0, no results and blocked = false, and
\* neither calls execute_hook nor starts a process, whatever the hook lists.
C1_DisabledReturnsEmpty ==
  \A c \in Calls :
    (pc[c] # "idle" /\ ~seen[c].read.enabled) =>
      /\ pc[c] = "done"
      /\ ret[c] = [event |-> req[c].event, hooks_executed |-> 0,
                   results |-> <<>>, blocked |-> FALSE,
                   blocking_reason |-> NoReason, total_time |-> 0]
      /\ invoked[c] = <<>>
      /\ started[c] = <<>>

\* C1 witness: a disabled configuration with an enabled matching hook for
\* the triggered event has returned.
C1_Witness ==
  /\ pc[1] = "done"
  /\ ~config.enabled
  /\ \E i \in 1..Len(MatchedHooks(1)) : MatchedHooks(1)[i].enabled

\* C2: once a matched blocking hook has exited nonzero, the call has returned
\* with blocked = true and no blocking hook configured after it was executed,
\* in the parallel branch and in the sequential branch alike.
C2_BlockingFailureStops ==
  \A c \in Calls :
    \A j \in 1..Len(applicable[c]) :
      (applicable[c][j].blocking /\ ExitedNonzero(c, j)) =>
        /\ pc[c] = "done"
        /\ ret[c].blocked
        /\ \A k \in 1..Len(applicable[c]) :
             (k > j /\ applicable[c][k].blocking) => k \notin Range(invoked[c])

\* C2 witness: in the parallel branch the first of two matched blocking hooks
\* exited nonzero and the call returned.
C2_Witness ==
  /\ pc[1] = "done"
  /\ ~SequentialMode(1)
  /\ Len(applicable[1]) = 2
  /\ applicable[1][1].blocking /\ applicable[1][2].blocking
  /\ applicable[1][2].enabled
  /\ ExitedNonzero(1, 1)

\* C3: the result of a non-blocking hook never has blocked = true, whether it
\* exited nonzero or timed out, the HookResult is blocked only by the result
\* of a blocking hook, and a matched hook is left out of a returned call only
\* when a blocking hook blocked it.
C3_NonBlockingNeverBlocks ==
  \A c \in Calls :
    /\ \A i \in 1..Len(results[c]) :
         results[c][i].blocked => applicable[c][IndexOf(c, results[c][i])].blocking
    /\ \A j \in DOMAIN taskResult[c] : ~taskResult[c][j].blocked
    /\ (pc[c] = "done" /\ ret[c].blocked) =>
         /\ ret[c].results # <<>>
         /\ LET last == ret[c].results[Len(ret[c].results)]
            IN last.blocked /\ applicable[c][IndexOf(c, last)].blocking
    /\ (pc[c] = "done" /\ seen[c].read.enabled /\ ~ret[c].blocked) =>
         /\ applicable[c] = MatchedHooks(c)
         /\ Range(invoked[c]) = 1..Len(applicable[c])
         /\ Names(ret[c].results) \in
              {HookNames(applicable[c]),
               HookNames(SelectSeq(applicable[c], LAMBDA h : ~h.blocking)
                         \o SelectSeq(applicable[c], LAMBDA h : h.blocking))}

\* C3 witness: a non-blocking hook exited nonzero, another timed out after
\* it, and the call returned unblocked with both results.
C3_Witness ==
  /\ pc[1] = "done"
  /\ ~ret[1].blocked
  /\ Len(ret[1].results) = 2
  /\ ~applicable[1][1].blocking
  /\ ret[1].results[1].exit_code = 1
  /\ ret[1].results[2].error = "timed out"

\* C4: in the sequential branch the hooks are invoked one at a time in
\* configured order, and the returned results list is the configured-order
\* prefix of the matched hooks that ends at the first blocked result (the
\* whole list when none blocked).
C4_SequentialPrefix ==
  \A c \in Calls :
    (pc[c] # "idle" /\ seen[c].read.enabled /\ SequentialMode(c)) =>
      LET hooks == MatchedHooks(c)
          n == Len(results[c])
      IN /\ invoked[c] = [i \in 1..Len(invoked[c]) |-> i]
         /\ Len(invoked[c]) \in {n, n + 1}
         /\ Len(invoked[c]) = n + 1 => pc[c] \in {"await", "raised"}
         /\ n <= Len(hooks)
         /\ Names(results[c]) = HookNames(SubSeq(hooks, 1, n))
         /\ \A i \in 1..(n - 1) : ~results[c][i].blocked
         /\ pc[c] = "done" =>
              /\ ret[c].results = results[c]
              /\ ret[c].hooks_executed = n
              /\ n = Len(hooks) \/ results[c][n].blocked
              /\ ret[c].blocked = (n > 0 /\ results[c][n].blocked)

\* C4 witness: the caller passed blocking = true to a parallel configuration
\* of a non-blocking hook followed by a blocking one, and both ran in order.
C4_Witness ==
  /\ pc[1] = "done"
  /\ config.parallel_execution /\ req[1].blocking
  /\ Len(applicable[1]) = 2
  /\ ~applicable[1][1].blocking /\ applicable[1][2].blocking
  /\ started[1] = <<1, 2>>
  /\ ret[1].blocked

\* The positions of a sequence of hook positions that hold a blocking hook.
BlockingOf(c, idxs) ==
  SelectSeq(idxs, LAMBDA j : applicable[c][j].blocking)

\* C5: in the parallel branch execute_hook has been called for every matched
\* non-blocking hook before it is called for the first matched blocking hook,
\* and the blocking hooks are then invoked in configured order, each after
\* the result of the one before.
C5_NonBlockingScheduledFirst ==
  \A c \in Calls :
    (pc[c] # "idle" /\ seen[c].read.enabled /\ ~SequentialMode(c)) =>
      LET nonBlocking == {j \in 1..Len(applicable[c]) :
                            ~applicable[c][j].blocking}
          blockingAll == BlockingOf(c, [j \in 1..Len(applicable[c]) |-> j])
          blockingRun == BlockingOf(c, invoked[c])
      IN /\ applicable[c] = MatchedHooks(c)
         /\ \A p \in 1..Len(invoked[c]) :
              applicable[c][invoked[c][p]].blocking =>
                nonBlocking \subseteq {invoked[c][q] : q \in 1..(p - 1)}
         /\ Len(blockingRun) <= Len(blockingAll)
         /\ blockingRun = SubSeq(blockingAll, 1, Len(blockingRun))
         /\ blockingRun # <<>> =>
              Len(results[c]) >=
                Cardinality(nonBlocking) + Len(blockingRun) - 1

\* C5 witness: a blocking hook configured before a non-blocking one was
\* invoked after it.
C5_Witness ==
  /\ pc[1] = "done"
  /\ Len(applicable[1]) = 2
  /\ applicable[1][1].blocking /\ ~applicable[1][2].blocking
  /\ invoked[1] = <<2, 1>>
  /\ started[1] = <<2, 1>>

\* The result recorded for the hook at position j, if any.
RecordedResults(c, j) ==
  {results[c][i] : i \in ResultsFor(c, j)}
  \cup (IF j \in DOMAIN taskResult[c] THEN {taskResult[c][j]} ELSE {})

\* C6: a hook whose process did not complete within its timeout was killed
\* and has a result with success = false and blocked equal to its blocking
\* flag; a blocking hook that timed out ends the call with blocked = true, a
\* non-blocking one does not block.
C6_TimeoutKillsAndBlocks ==
  \A c \in Calls :
    \A j \in 1..Len(applicable[c]) :
      /\ (\E r \in RecordedResults(c, j) : r.error = "timed out")
           <=> j \in killed[c]
      /\ j \in killed[c] =>
           /\ j \in Range(started[c])
           /\ \A r \in RecordedResults(c, j) :
                /\ ~r.success
                /\ r.error = "timed out"
                /\ r.blocked = applicable[c][j].blocking
           /\ applicable[c][j].blocking =>
                (pc[c] = "done" /\ ret[c].blocked)
           /\ (~applicable[c][j].blocking /\ pc[c] = "done" /\ ret[c].blocked)
                => \E k \in 1..Len(applicable[c]) :
                     /\ applicable[c][k].blocking
                     /\ \E r \in RecordedResults(c, k) : r.blocked

\* C6 witness: a non-blocking hook timed out, the blocking hook after it
\* timed out too, and the call returned blocked.
C6_Witness ==
  /\ pc[1] = "done"
  /\ Len(applicable[1]) = 2
  /\ ~applicable[1][1].blocking /\ applicable[1][2].blocking
  /\ killed[1] = {1, 2}
  /\ ret[1].blocked

\* C7: execute_hook never raises to its caller, so no trigger_hook call ends
\* by raising: every failure of a hook, the failure to serialize the event
\* data included, becomes a result with success = false.
C7_NeverRaises ==
  \A c \in Calls : pc[c] # "raised"

Max(S) == CHOOSE x \in S : \A y \in S : y <= x

\* The sources that were loaded as a JSON object and define scalar key k.
DefinesKey(k) ==
  {i \in 1..3 : sources[i].kind = "object" /\ k \in DOMAIN sources[i].dict}

\* The sources that were loaded as a JSON object and list hooks for event e.
DefinesEvent(e) ==
  {i \in DefinesKey("hooks") : e \in DOMAIN sources[i].dict["hooks"]}

\* C8: the merged configuration is last-writer-wins per key over the sources
\* in the order global, project, explicit: a scalar setting and the hook list
\* of an event are those of the last source that defines them, and are absent
\* when no source defines them.
C8_LastWriterWins ==
  ldPc = "done" =>
    /\ \A k \in ScalarKeys :
         IF DefinesKey(k) = {} THEN k \notin DOMAIN merged
         ELSE /\ k \in DOMAIN merged
              /\ merged[k] = sources[Max(DefinesKey(k))].dict[k]
    /\ "hooks" \in DOMAIN merged <=> DefinesKey("hooks") # {}
    /\ \A e \in Events :
         IF DefinesEvent(e) = {}
         THEN "hooks" \in DOMAIN merged => e \notin DOMAIN merged["hooks"]
         ELSE /\ e \in DOMAIN merged["hooks"]
              /\ merged["hooks"][e] =
                   sources[Max(DefinesEvent(e))].dict["hooks"][e]

\* C8 witness: the explicit source replaces the global list of one event, the
\* global list of the other event is retained, and the project source
\* overrides a scalar of the global one.
C8_Witness ==
  /\ ldPc = "done"
  /\ DefinesEvent("pre_agent_start") = {1, 3}
  /\ DefinesEvent("post_agent_complete") = {1}
  /\ sources[1].dict["hooks"]["pre_agent_start"]
       # sources[3].dict["hooks"]["pre_agent_start"]
  /\ DefinesKey("enabled") = {1, 2}
  /\ sources[1].dict["enabled"] # sources[2].dict["enabled"]

\* C9: loading the configuration never fails; the sources that are missing,
\* unreadable or not valid JSON are skipped and the others merged, and with
\* no configuration from any source the effective one has enabled = false.
C9_LoadNeverFails ==
  /\ ldPc # "failed"
  /\ ldPc = "done" =>
       /\ configs = SelectSeq(sources, LAMBDA s :
                      s.kind \notin {"missing", "unreadable", "invalid"})
       /\ configs = <<>> => ~loaded.enabled

\* C10: what a trigger_hook call reads of the configuration (enabled flag,
\* hook list, parallel_execution flag) is what one configuration returned by
\* _load_configuration holds, the one latest loaded when the call began.
C10_ReadsOneConfiguration ==
  \A c \in Calls : pc[c] # "idle" => seen[c].read = seen[c].loaded

\* C10 witness: a call is awaiting a hook under the configuration it read
\* while a reload has replaced it, and the other call has read the new one.
C10_Witness ==
  /\ pc[1] = "await"
  /\ pc[2] = "gather"
  /\ req[1].event = req[2].event
  /\ seen[1].read.parallel_execution # seen[2].read.parallel_execution
  /\ seen[1].read.hooks # seen[2].read.hooks
  /\ seen[2].read = ConfigRead(config, req[2].event)

\* C20: trigger_hook leaves the event data it is handed unchanged, except
\* that it sets the context and the timestamp when they are absent: a context
\* or timestamp the caller set is the one the hooks receive.
C20_KeepsCallerStamps ==
  \A c \in callers :
    pc[c] # "idle" =>
      /\ req[c].data.tool_name = req[c].given.tool_name
      /\ req[c].data.serializable = req[c].given.serializable
      /\ req[c].given.context # Absent =>
            req[c].data.context = req[c].given.context
      /\ req[c].given.timestamp # Absent =>
            req[c].data.timestamp = req[c].given.timestamp

\* The positions of the trace of request r that are the runner invocation.
RunnerAt(r) == {i \in 1..Len(trace[r]) : trace[r][i].step = "runner"}

\* The positions of the trace of request r at which trigger_hook returned
\* blocked = true for one of the two events the drivers await as blocking.
BlockedAt(r) ==
  {i \in 1..Len(trace[r]) :
     /\ trace[r][i].blocked
     /\ trace[r][i].step \in {"pre_agent_start", "mcp_request_received"}}

\* C11: whenever the trigger_hook call for pre_agent_start or for
\* mcp_request_received returns blocked = true, the driver stops that
\* request: the agent runner is never invoked for it and the caller gets a
\* response with success = false and an error message.
C11_BlockedStopsRequest ==
  \A r \in Calls :
    BlockedAt(r) # {} =>
      /\ RunnerAt(r) = {}
      /\ dpc[r] \notin {"run", "post_agent_complete", "agent_error"}
      /\ response[r].made
      /\ ~response[r].success
      /\ response[r].error # ""

\* C11 witness: a prompt_nano_agent request that the hooks of
\* pre_agent_start blocked has returned.
C11_Witness ==
  /\ dpc[1] = "returned"
  /\ \E i \in BlockedAt(1) : trace[1][i].step = "pre_agent_start"

\* C12: every agent execution, whichever entry point starts it, raises
\* pre_agent_start through trigger_hook before the agent runner is invoked and
\* raises post_agent_complete or agent_error through trigger_hook after it.
C12_HooksAroundRunner ==
  \A r \in Calls :
    \A i \in RunnerAt(r) :
      /\ \E j \in 1..(i - 1) : trace[r][j].step = "pre_agent_start"
      /\ dpc[r] = "returned" =>
           \E k \in (i + 1)..Len(trace[r]) :
             trace[r][k].step \in {"post_agent_complete", "agent_error"}

\* C13: whenever a lifecycle step is blocked, the HookResult returned with
\* blocked = true carries a blocking reason that names the blocking hook, and
\* the driver's error message is that reason.
C13_BlockNamesHook ==
  /\ \A c \in Calls :
       (pc[c] = "done" /\ ret[c].blocked) =>
         /\ ret[c].blocking_reason.given
         /\ \E i \in 1..Len(ret[c].results) :
              /\ ret[c].results[i].blocked
              /\ ret[c].results[i].hook_name = ret[c].blocking_reason.hook
  /\ \A r \in Calls :
       response[r].blocked_at # "" => response[r].names_hook # 0

\* The permissions in force for the tools of request r.
InForce(r) == ToolPermissions(Request(r))

\* C14: for every ToolPermissions value, tool name and path, the decision
\* allows the call exactly when the tool is not in blocked_tools, allowed_tools
\* is empty or has the tool, read_only does not forbid a write/edit tool, the
\* path matches no blocked_paths pattern, and allowed_paths is empty or has a
\* matching pattern; a tool on both lists and a path matching both an allow
\* and a deny pattern are denied.
C14_PermissionProcedure ==
  \A r \in Calls :
    toolCall[r].made =>
      LET p == InForce(r)
          tool == toolCall[r].tool
          path == toolCall[r].path
          inBlockedPaths == \E pat \in p.blocked_paths : PathMatches(path, pat)
          inAllowedPaths == \E pat \in p.allowed_paths : PathMatches(path, pat)
      IN /\ toolCall[r].allowed <=>
              /\ tool \notin p.blocked_tools
              /\ p.allowed_tools = {} \/ tool \in p.allowed_tools
              /\ ~(p.read_only /\ tool \in MutatingTools)
              /\ ~inBlockedPaths
              /\ p.allowed_paths = {} \/ inAllowedPaths
         /\ (tool \in p.allowed_tools /\ tool \in p.blocked_tools) =>
              ~toolCall[r].allowed
         /\ (inAllowedPaths /\ inBlockedPaths) => ~toolCall[r].allowed

\* C14 witness: a call of a tool that is on both lists, for a path that
\* matches an allow and a deny pattern, was decided.
C14_Witness ==
  /\ toolCall[1].made
  /\ toolCall[1].tool \in InForce(1).allowed_tools \cap InForce(1).blocked_tools
  /\ \E pat \in InForce(1).allowed_paths : PathMatches(toolCall[1].path, pat)
  /\ \E pat \in InForce(1).blocked_paths : PathMatches(toolCall[1].path, pat)
  /\ ~toolCall[1].allowed

ReadOnlyInForce(r) == args[r].read_only \/ local[r].sess_read_only

ExchangeAt(conversation, r) ==
  {i \in 1..(Len(conversation) - 1) :
     /\ conversation[i] = UserMessage(r)
     /\ conversation[i + 1] = AssistantMessage(r)}

\* Request r of an MCP client is past update_session, which wrote its
\* exchange.
Recorded(r) ==
  /\ dpc[r] \in {"update_settings", "returned"}
  /\ entry[r] = "mcp"
  /\ local[r].session_id # NoId

\* C16: for any interleaving of two concurrent prompt_nano_agent requests
\* against the same session no update is lost: once a request has written its
\* exchange, the session's conversation holds the exchange, the user message
\* directly followed by its assistant message, whatever the other request
\* did; after both, it holds both.
C16_NoLostUpdate ==
  \A r \in Calls :
    Recorded(r) =>
      Cardinality(ExchangeAt(store[local[r].session_id].conversation, r)) = 1

\* C16 witness: two requests that loaded session 1 before either wrote have
\* both returned, and the session holds both exchanges after its history.
C16_Witness ==
  /\ dpc[1] = "returned" /\ dpc[2] = "returned"
  /\ local[1].session_id = 1 /\ local[2].session_id = 1
  /\ local[1].conversation = local[2].conversation
  /\ Len(store[1].conversation) = Len(local[1].conversation) + 4
  /\ ExchangeAt(store[1].conversation, 1) # {}
  /\ ExchangeAt(store[1].conversation, 2) # {}

\* The last Min(k, Len(conversation)) messages of a conversation, oldest
\* first.
LastMessages(conversation, k) ==
  LET n == Len(conversation)
      m == IF k < n THEN k ELSE n
  IN [i \in 1..m |-> conversation[n - m + i]]

\* C17: for every session and every max_messages, get_context returns the
\* last min(max_messages, length) messages of the conversation in
\* chronological order and nothing else; the chat history prompt_nano_agent
\* hands to the agent has at most 20 messages and is a suffix of the stored
\* conversation.
C17_ContextIsRecentWindow ==
  /\ contextCall.made =>
       contextCall.result =
         LastMessages(contextCall.conversation, contextCall.max_messages)
  /\ \A r \in Calls :
       LET h == local[r].chat_history
           stored == local[r].source
       IN /\ Len(h) <= 20
          /\ Len(h) <= Len(stored)
          /\ \A i \in 1..Len(h) : h[i] = stored[Len(stored) - Len(h) + i]
          /\ dpc[r] \in {"run", "post_agent_complete", "agent_error"}
             /\ ~args[r].clear_history /\ local[r].conversation # <<>> =>
               h = LastMessages(stored, 20)

\* C17 witness: a get_context call returned a proper window of a longer
\* conversation, and the agent of a request on a session with more than 20
\* messages runs with a history of 20.
C17_Witness ==
  /\ contextCall.made
  /\ 0 < contextCall.max_messages
  /\ contextCall.max_messages < Len(contextCall.conversation)
  /\ dpc[1] = "run"
  /\ Len(local[1].source) > 20
  /\ Len(local[1].chat_history) = 20

\* C19: prompt_nano_agent called in an MCP context with session_id = S and
\* clear_history = true clears the history of S and keeps its settings: the
\* agent receives no prior history, the settings stored in S are applied to
\* the execution, and afterwards S holds only the current exchange.
C19_ClearKeepsSettings ==
  \A r \in Calls :
    (entry[r] = "mcp" /\ args[r].session_id = 1 /\ args[r].clear_history) =>
      /\ dpc[r] \notin {"idle", "get_session", "get_context"} =>
           /\ local[r].chat_history = <<>>
           /\ local[r].model = "gpt-5"
           /\ local[r].read_only
      /\ dpc[r] = "returned" =>
           store[1].conversation = <<UserMessage(r), AssistantMessage(r)>>

\* The sessions an expiry deleted.
Deleted == {i \in SessionIds : expireLog.before[i].exists
                               /\ ~expireLog.after[i].exists}

\* C18: expire_older_than(days) deletes exactly the sessions last updated
\* strictly before the cutoff, leaves every other session untouched, deletes
\* no session while it is being written, and returns the number of sessions
\* it deleted.
C18_ExpiresExactlyOld ==
  expireLog.ran =>
    /\ Deleted = {i \in SessionIds :
                    /\ expireLog.before[i].exists
                    /\ expireLog.before[i].updated < Today - expireLog.days}
    /\ \A i \in SessionIds \ Deleted : expireLog.after[i] = expireLog.before[i]
    /\ Deleted \cap expireLog.busy = {}
    /\ expireLog.count = Cardinality(Deleted)
    /\ expireLog.via = "cli" => expireLog.reported = Cardinality(Deleted)

\* C18 witness: an expiry deleted a session, kept one last updated at the
\* cutoff, and ran while a request held the lock of a session it kept.
C18_Witness ==
  /\ expireLog.ran
  /\ Deleted # {}
  /\ expireLog.busy # {}
  /\ \E i \in SessionIds \ Deleted :
       /\ expireLog.before[i].exists
       /\ expireLog.before[i].updated = Today - expireLog.days

\* C21: for a hook whose enabled flag is false execute_hook starts no process
\* and returns at once a result with success = true, exit_code = 0,
\* execution_time = 0 and blocked = false, also when the hook is blocking; a
\* disabled hook never blocks a trigger_hook call.
C21_DisabledHookIsNoOp ==
  \A c \in Calls :
    \A j \in 1..Len(applicable[c]) :
      ~applicable[c][j].enabled =>
        /\ j \notin Range(started[c])
        /\ j \in Range(invoked[c]) => RecordedResults(c, j) # {}
        /\ \A r \in RecordedResults(c, j) :
             /\ r.success
             /\ r.exit_code = 0
             /\ r.execution_time = 0
             /\ ~r.blocked
        /\ (pc[c] = "done" /\ ret[c].blocked) =>
             ret[c].results[Len(ret[c].results)].hook_name
               # applicable[c][j].name

\* C21 witness: a disabled blocking hook was executed, the enabled hook after
\* it ran as a process, and the call returned unblocked.
C21_Witness ==
  /\ pc[1] = "done"
  /\ ~ret[1].blocked
  /\ Len(applicable[1]) = 2
  /\ ~applicable[1][1].enabled /\ applicable[1][1].blocking
  /\ invoked[1] = <<1, 2>>
  /\ started[1] = <<2>>
  /\ Len(ret[1].results) = 2

RECURSIVE TimeSum(_)
\* The sum of the execution times of a list of results.
TimeSum(rs) ==
  IF rs = <<>> THEN 0 ELSE rs[1].execution_time + TimeSum(Tail(rs))

\* The longest execution time of a list of results, 0 for the empty list.
TimeMax(rs) ==
  Max({0} \cup {rs[i].execution_time : i \in 1..Len(rs)})

\* C22: the total_time of a returned HookResult is the maximum execution time
\* over the hooks run in the parallel batch (0 when the batch is empty) plus
\* the sum of the execution times of the hooks run sequentially in that call;
\* in sequential mode it is the sum over all executed hooks.
C22_TotalTime ==
  \A c \in Calls :
    pc[c] = "done" =>
      LET batch == SelectSeq(ret[c].results,
                     LAMBDA r : ~applicable[c][IndexOf(c, r)].blocking)
          rest == SelectSeq(ret[c].results,
                    LAMBDA r : applicable[c][IndexOf(c, r)].blocking)
      IN ret[c].total_time =
           IF SequentialMode(c) THEN TimeSum(ret[c].results)
           ELSE TimeMax(batch) + TimeSum(rest)

\* C22 witness: in the parallel branch two gathered hooks took different
\* times, neither zero, and the call returned the longer one as total_time.
C22_Witness ==
  /\ pc[1] = "done"
  /\ ~SequentialMode(1)
  /\ Len(ret[1].results) = 2
  /\ ~applicable[1][1].blocking /\ ~applicable[1][2].blocking
  /\ ret[1].results[1].execution_time = 1
  /\ ret[1].results[2].execution_time = 2
  /\ ret[1].total_time = 2

\* C23: in prompt_nano_agent with an MCP context a setting the caller passes
\* explicitly is the one used for the execution, and the session's stored
\* value is used only when the caller did not supply the parameter.
C23_ExplicitOverridesSession ==
  \A r \in Calls :
    (entry[r] = "mcp"
     /\ dpc[r] \notin {"idle", "get_session", "get_context"}) =>
      /\ "model" \in args[r].passed => Request(r).model = args[r].model
      /\ "read_only" \in args[r].passed =>
           Request(r).read_only = args[r].read_only
      /\ Request(r).model # args[r].model =>
           /\ "model" \notin args[r].passed
           /\ Request(r).model = local[r].sess_model
      /\ Request(r).read_only # args[r].read_only =>
           /\ "read_only" \notin args[r].passed
           /\ Request(r).read_only = local[r].sess_read_only

\* The sessions that hold the exchange of request r.
SavedIn(r) ==
  {i \in SessionIds : ExchangeAt(store[i].conversation, r) # {}}

\* C24: in the CLI's run --new forces a new session: whatever --continue and
\* --session say, no earlier session is loaded, the agent receives no chat
\* history, and with saving enabled the exchange is appended to a session
\* created during this invocation; an exchange is appended only when saving
\* is enabled and the agent response succeeded.
C24_NewForcesNewSession ==
  \A r \in Calls :
    (entry[r] = "cli" /\ dpc[r] \in {"cli_run", "cli_save", "returned"}) =>
      /\ args[r].new_session =>
           /\ local[r].session_id = local[r].created
           /\ local[r].chat_history = <<>>
           /\ Request(r).model = args[r].model
           /\ args[r].save => local[r].created # NoId
           /\ \A i \in SessionIds \ {local[r].created} :
                store[i] \in {EmptyStore[i], CliStore[i]}
           /\ (dpc[r] = "returned" /\ args[r].save /\ response[r].success) =>
                /\ SavedIn(r) = {local[r].created}
                /\ store[local[r].created].conversation =
                     <<UserMessage(r), AssistantMessage(r)>>
      /\ SavedIn(r) # {} => (args[r].save /\ response[r].success)

\* C24 witness: run --new --continue --session 1 with saving enabled, on a
\* store that holds sessions 1 and 2, returned after a successful response
\* with the exchange saved in the third session.
C24_Witness ==
  /\ dpc[1] = "returned"
  /\ args[1].new_session /\ args[1].continue_session /\ args[1].save
  /\ args[1].session_id = 1
  /\ response[1].success
  /\ store[1] = CliStore[1] /\ store[2] = CliStore[2]
  /\ SavedIn(1) = {local[1].created}
  /\ local[1].created \notin {NoId, 1, 2}

\* C25: the mcp_request_received and mcp_response_ready events raised by
\* prompt_nano_agent reach the hooks with context = mcp, so every hook
\* process run for them receives the MCP-specific variables; a hook process
\* receives them exactly when the context of the event is mcp.
C25_McpEventsCarryMcpContext ==
  \A r \in Calls :
    started[r] # <<>> =>
      /\ req[r].event \in {"mcp_request_received", "mcp_response_ready"} =>
           /\ req[r].data.context = "mcp"
           /\ Env(req[r].data).NANO_MCP_CONTEXT
      /\ Env(req[r].data).NANO_MCP_CONTEXT <=> req[r].data.context = "mcp"

\* The positions of a results list whose result has blocked = true.
BlockedResults(rs) == {i \in 1..Len(rs) : rs[i].blocked}

\* C26: every HookResult trigger_hook returns has hooks_executed equal to the
\* length of results; at most one result has blocked = true and, if one has,
\* it is the last element of results and belongs to a hook with blocking =
\* true; and HookResult.blocked is true exactly when such a result exists.
C26_ResultWellFormed ==
  \A c \in Calls :
    pc[c] = "done" =>
      LET rs == ret[c].results
      IN /\ ret[c].hooks_executed = Len(rs)
         /\ Cardinality(BlockedResults(rs)) <= 1
         /\ \A i \in BlockedResults(rs) :
              /\ i = Len(rs)
              /\ applicable[c][IndexOf(c, rs[i])].blocking
         /\ ret[c].blocked <=> BlockedResults(rs) # {}

\* C26 witness: in the parallel branch a non-blocking hook failed, then the
\* blocking hook configured before it blocked, and the call returned.
C26_Witness ==
  /\ pc[1] = "done"
  /\ ~SequentialMode(1)
  /\ ret[1].blocked
  /\ ret[1].hooks_executed = 2
  /\ ~ret[1].results[1].success /\ ~ret[1].results[1].blocked
  /\ ret[1].results[1].hook_name = 2
  /\ ret[1].results[2].blocked

\* How many times execute_hook was called for the hook at position j.
TimesInvoked(c, j) ==
  Cardinality({p \in 1..Len(invoked[c]) : invoked[c][p] = j})

\* C27: in the parallel branch every matched non-blocking hook is executed
\* exactly once per call, and its result stands in results before the result
\* of every blocking hook, whether or not a blocking hook blocks; in the
\* sequential branch no hook configured after a hook whose result blocked is
\* executed, non-blocking or not.
C27_NonBlockingAlwaysRunInParallel ==
  \A c \in Calls :
    LET hooks == applicable[c]
        n == Len(hooks)
    IN /\ \A j \in 1..n : TimesInvoked(c, j) <= 1
       /\ (pc[c] = "done" /\ seen[c].read.enabled /\ ~SequentialMode(c)) =>
            \A j \in 1..n :
              ~hooks[j].blocking =>
                /\ TimesInvoked(c, j) = 1
                /\ Cardinality(ResultsFor(c, j)) = 1
                /\ \A i \in ResultsFor(c, j) :
                     /\ ret[c].results[i] = results[c][i]
                     /\ \A k \in 1..Len(results[c]) :
                          hooks[IndexOf(c, results[c][k])].blocking => i < k
       /\ (pc[c] # "idle" /\ seen[c].read.enabled /\ SequentialMode(c)) =>
            \A j \in 1..n :
              (\E i \in ResultsFor(c, j) : results[c][i].blocked) =>
                \A k \in (j + 1)..n : TimesInvoked(c, k) = 0

\* C27 witness: in the parallel branch the blocking hook configured first
\* blocked, and the non-blocking hook configured after it has its result
\* before the blocking one's.
C27_Witness ==
  /\ pc[1] = "done"
  /\ ~SequentialMode(1)
  /\ Len(applicable[1]) = 2
  /\ applicable[1][1].blocking /\ ~applicable[1][2].blocking
  /\ ret[1].blocked
  /\ Names(ret[1].results) = <<2, 1>>

\* C27 witness of the sequential branch: with the same two hooks the first
\* blocked and the call returned without the second.
C27_WitnessSequential ==
  /\ pc[1] = "done"
  /\ SequentialMode(1)
  /\ Len(applicable[1]) = 2
  /\ applicable[1][1].blocking /\ ~applicable[1][2].blocking
  /\ ret[1].blocked
  /\ invoked[1] = <<1>>

\* The two events whose trigger_hook call the drivers make with blocking =
\* true and whose blocked result they act on.
GateEvents == {"mcp_request_received", "pre_agent_start"}

\* The positions of the trace of request r at which the hook call of a gate
\* event raised into the driver's except clause.
RaisedAt(r) ==
  {i \in 1..Len(trace[r]) :
     trace[r][i].raised /\ trace[r][i].step \in GateEvents}

\* C28: the drivers fail open.  When the hook call of pre_agent_start or of
\* mcp_request_received ends, the request goes on to its next step with its
\* response untouched unless trigger_hook returned blocked = true; an
\* exception raised while the manager is obtained or by trigger_hook is
\* swallowed and the request goes on as if no hook had blocked.
C28_DriverFailsOpen ==
  [][\A r \in Calls :
       (dpc[r] \in GateEvents /\ dpc'[r] # dpc[r]) =>
         IF pc[r] = "done" /\ ret[r].blocked
         THEN /\ dpc'[r] \notin {"pre_agent_start", "run"}
              /\ ~response'[r].success
         ELSE /\ dpc'[r] = IF dpc[r] = "mcp_request_received"
                           THEN "pre_agent_start" ELSE "run"
              /\ response'[r] = response[r]]_vars

\* C28 witness: the hook calls of mcp_request_received and of pre_agent_start
\* both raised, the runner was invoked after them and the request returned a
\* success.
C28_Witness ==
  /\ dpc[1] = "returned"
  /\ response[1].success
  /\ {trace[1][i].step : i \in RaisedAt(1)} = GateEvents
  /\ \E k \in RunnerAt(1) : \A i \in RaisedAt(1) : i < k

\* The positions of the trace of request r with the given step.
StepsAt(r, step) == {i \in 1..Len(trace[r]) : trace[r][i].step = step}

StoredReadOnly(r) ==
  /\ local[r].session_id # NoId
  /\ store[local[r].session_id].exists
  /\ store[local[r].session_id].read_only

\* A request that found read_only = true in the session it resolved to runs
\* its agent with read_only = true and writes true back.
ResolvedReadOnlyStays ==
  \A r \in Calls :
    (entry[r] = "mcp" /\ local[r].sess_read_only) =>
      /\ dpc[r] \in {"run", "update_session", "write_session",
                     "update_settings"} => Request(r).read_only
      /\ (dpc[r] = "update_settings" /\ dpc'[r] # dpc[r]
          /\ store[local[r].session_id].exists) =>
           store'[local[r].session_id].read_only

\* While a session is stored with read_only = true no request on it starts
\* its agent with write access.
NoWriteAccessOnceStored ==
  \A r \in Calls :
    (entry[r] = "mcp" /\ dpc[r] = "run" /\ dpc'[r] # dpc[r]
     /\ StoredReadOnly(r)) => Request(r).read_only

\* A stored read_only = true is never replaced by false.
StoredFlagStays ==
  \A i \in SessionIds :
    (store[i].exists /\ store[i].read_only /\ store'[i].exists) =>
      store'[i].read_only

\* C30: read_only is sticky per session.  Once a session is stored with
\* read_only = true, every request that resolves to it executes with
\* read_only = true whatever the caller passed and writes true back, the
\* stored flag never returns to false, and no request on that session runs
\* its agent with write access again.
C30_ReadOnlySticky ==
  [][ResolvedReadOnlyStays /\ NoWriteAccessOnceStored /\ StoredFlagStays]_vars

====
